---------------------------- MODULE Spec2Model ----------------------------
(***************************************************************************)
(* lonli.live: a browser shortwave-receiver simulation.  The repository    *)
(* holds several drafts of the same script; each draft is one `variant`:   *)
(*   "A"  src/main.js 1-450            Hybrid Retro edition                *)
(*   "B"  src/main.js 452-899          final (QSB oscillator)              *)
(*   "C"  src/unnamed/part_003 172-701 Hybrid Retro final (crossfade)      *)
(*   "D"  src/unnamed/part_003 703-1098 lonli.live (plain)                 *)
(*   "E"  src/unnamed/part_002         Full Corrected Main Script          *)
(*   "F"  src/unnamed/part_001 1-148   slider-driven draft                 *)
(*                                                                         *)
(* Numbers.  A JavaScript number is modelled as a non-negative fixed-point *)
(* integer, or one of the two IEEE specials NaN and Infinity.  Units:      *)
(*   coordinates      1e-4 degree                                          *)
(*   distances        1e-4 km                                              *)
(*   pow(d, e)        0.1                                                  *)
(*   x (raw signal)   1/XScale(v)                                          *)
(*   fractions        1e-6 (FracScale)                                     *)
(*   gains, depths    1e-3 (Milli)                                         *)
(*   local time       1/150000 hour (so that lng/15 is exact)              *)
(***************************************************************************)
EXTENDS Integers, Sequences, FiniteSets, TLC

VARIABLES
  variant,      \* which draft of the script is running
  lastTime,     \* performance.now() stored by the last audio update (ms)
  intervals,    \* live interval timers made by the update loop
  scanIntervals,\* live interval timers made by startScan
  resuming,     \* Start click handlers suspended in `await audioCtx.resume()`
  boot,         \* "fetching" until the stations.json request has settled
  geo,          \* state of the geolocation request
  stations,     \* the loaded station catalogue (load order)
  userLat,      \* listener latitude, Null until acquired
  userLng,      \* listener longitude, Null until acquired
  freqNumber,   \* the tuned frequency the scripts read (kHz)
  utc,          \* last wall-clock reading (UTC minutes after midnight)
  audioCtx,     \* number of AudioContext objects constructed
  noiseStarts,  \* number of start() calls on a noise buffer source
  elSrc,        \* src (resolved URL) of the station audio element
  elSources,    \* MediaElementSource nodes made for that element
  stationGain,  \* target of stationGain.gain (Null before the node exists)
  noiseGain,    \* target of noiseGain.gain (Null before the node exists)
  qsbGain,      \* draft B: target of qsbGain.gain, the LFO depth
  chains,       \* draft C: chains made, each [src, gain, paused, pauseDue]
  lastSwitch,   \* draft C: index in chains of lastSwitch, 0 when null
  pending,      \* draft C: tick callbacks suspended in `await el.play()`
  qsbPhase,     \* QSB phase accumulator (1e-3 cycle)
  updateTimer,  \* TRUE while the update timer (or frame loop) is scheduled
  startEnabled, \* the Start button can be clicked
  stopEnabled,  \* the Stop button can be clicked
  steps,        \* number of timer callbacks and frames run so far
  activated,    \* the page has had a user gesture (click, key, drag)
  freqRange,    \* value of the range slider (kHz)
  editing,      \* the number field holds typed text not yet committed
  startVal,     \* knob drag: frequency at pointerdown, Null when idle
  scanning,     \* the scan timer is running
  scanPos,      \* draft B: `pos` of the scan closure
  clicks,       \* value-changing tuning gestures made so far
  eff           \* what the last handler did (observation of its calls)

vars == <<variant, lastTime, intervals, scanIntervals, resuming, boot, geo,
          stations, userLat, userLng, freqNumber, utc, audioCtx, noiseStarts, elSrc, elSources, stationGain, noiseGain,
          qsbGain, chains, lastSwitch, pending, qsbPhase, updateTimer,
          startEnabled, stopEnabled, steps, activated, freqRange, editing,
          startVal, scanning, scanPos, clicks, eff>>

\* the timer bookkeeping
timers == <<intervals, scanIntervals, resuming>>

\* the state of the tuning controls that the radio handlers leave alone
tuning == <<editing, startVal, scanning, scanPos, clicks>>

-----------------------------------------------------------------------------
(* The JavaScript number domain *)

Null == -1000000000
NaN == -1
Infinity == -2

Milli == 10 ^ 3
FracScale == 10 ^ 6

IsFinite(v) == v >= 0

\* floor(a * b / c) for a, b >= 0 and c > 0, without leaving 32 bits:
\* binary long multiplication carrying quotient and remainder
AddMod(r, m, c) == IF r >= c - m THEN <<1, r - (c - m)>> ELSE <<0, r + m>>

\* the largest integer of the 32-bit arithmetic
MaxInt == 2 ^ 30 + (2 ^ 30 - 1)

RECURSIVE MulDivQR(_, _, _)
MulDivQR(a, b, c) ==
  IF a = 0 \/ b <= MaxInt \div a
  THEN <<(a * b) \div c, (a * b) % c>>
  ELSE LET h == MulDivQR(a, b \div 2, c)
           d == AddMod(h[2], h[2], c)
           e == AddMod(d[2], a % c, c)
       IN IF b % 2 = 0 THEN <<2 * h[1] + d[1], d[2]>>
          ELSE <<2 * h[1] + d[1] + (a \div c) + e[1], e[2]>>

MulDiv(a, b, c) == MulDivQR(a, b, c)[1]

\* a * b / c on the number domain (b, c finite, c > 0)
NumMulDiv(a, b, c) ==
  IF a = NaN \/ b = NaN THEN NaN
  ELSE IF a = Infinity THEN (IF b = 0 THEN NaN ELSE Infinity)
  ELSE MulDiv(a, b, c)

\* JavaScript %: the sign follows the dividend
JsMod(a, b) == IF a >= 0 THEN a % b ELSE 0 - ((0 - a) % b)

\* null coerces to 0 in arithmetic
ToNumber(v) == IF v = Null THEN 0 ELSE v

Max(a, b) == IF a >= b THEN a ELSE b
Min(a, b) == IF a <= b THEN a ELSE b
Abs(a) == IF a >= 0 THEN a ELSE 0 - a

\* Math.max(0, Math.min(1, x)) at scale `one`: NaN passes through both
clamp01(x, one) ==
  IF x = NaN THEN NaN
  ELSE IF x = Infinity THEN one
  ELSE Max(0, Min(one, x))

\* a + (b - a) * t, all in Milli
lerp(a, b, t) == a + (((b - a) * t) \div Milli)

-----------------------------------------------------------------------------
(* Transcendental primitives *)

\* Math.exp(-f) for 0 <= f < 1 (f in Milli), result in FracScale: the
\* alternating series 1 - f + f^2/2! - ...
RECURSIVE ExpSeries(_, _, _)
ExpSeries(f, k, term) ==
  IF term = 0 THEN 0
  ELSE term - ExpSeries(f, k + 1, (term * f) \div ((k + 1) * Milli))

\* Math.exp(-1) in FracScale
InvE == 367879

RECURSIVE TimesInvE(_, _)
TimesInvE(v, n) ==
  IF n = 0 \/ v = 0 THEN v ELSE TimesInvE(MulDiv(v, InvE, FracScale), n - 1)

\* Math.exp(-t), t >= 0 in Milli, result in FracScale
ExpNeg(t) == TimesInvE(ExpSeries(t % Milli, 0, FracScale), t \div Milli)

\* Math.sin(2 * pi * phase), phase in Milli cycles, result in Milli:
\* linear interpolation between the values at the eighths of a cycle
SinKnots == <<0, 707, 1000, 707, 0, -707, -1000, -707, 0>>

SinCycle(phase) ==
  LET p  == phase % Milli
      i  == p \div 125
      lo == SinKnots[i + 1]
      hi == SinKnots[i + 2]
  IN lo + (((hi - lo) * (p % 125)) \div 125)

\* Math.pow(s, 0.9) for s in [0, 1] (Milli): linear interpolation between
\* the values at the tenths
Pow09Knots == <<0, 126, 235, 338, 438, 536, 631, 725, 818, 910, 1000>>

Pow09(s) ==
  IF s >= Milli THEN Milli
  ELSE LET i  == s \div 100
           lo == Pow09Knots[i + 1]
           hi == Pow09Knots[i + 2]
       IN lo + (((hi - lo) * (s % 100)) \div 100)


-----------------------------------------------------------------------------
(* Stations, listener positions, asset URLs *)

Variants == {"A", "B", "C", "D", "E", "F"}

\* Resolved URLs and asset references are sequences of text pieces; the page
\* the script runs on is served from BaseUrl.
BaseUrl == <<"http://host/">>

\* the src getter of a media element returns the reference resolved
\* against the document base: an absolute, normalised URL (a "./" segment
\* of the reference does not appear in it)
Resolve(ref) == BaseUrl \o SelectSeq(ref, LAMBDA piece : piece # "./")

\* hay.indexOf(needle) !== -1
Contains(hay, needle) ==
  \E i \in 1..(Len(hay) + 1) :
     /\ i + Len(needle) - 1 <= Len(hay)
     /\ SubSeq(hay, i, i + Len(needle) - 1) = needle

\* the spec's example transmitter: (51.0, -0.10), 50 kW, 9600 kHz
StNear ==
  [label |-> "near", lat |-> 510000, lng |-> -1000, power_watts |-> 50000,
   frequency_khz |-> 9600, audio |-> <<"audio/", "bbc", "news.mp3">>]
\* same site and power on 25000 kHz; its asset name is the tail of StNear's
StHigh ==
  [label |-> "high", lat |-> 510000, lng |-> -1000, power_watts |-> 50000,
   frequency_khz |-> 25000, audio |-> <<"news.mp3">>]
\* a record equal to StNear in every number (a tie)
StTwin ==
  [label |-> "twin", lat |-> 510000, lng |-> -1000, power_watts |-> 50000,
   frequency_khz |-> 9600, audio |-> <<"audio/", "twin.mp3">>]
\* a weak distant station; its asset is written "./audio/station.mp3"
StTokyo ==
  [label |-> "tokyo", lat |-> 356800, lng |-> 1396900, power_watts |-> 100,
   frequency_khz |-> 6000, audio |-> <<"./", "audio/", "station.mp3">>]
\* zero transmit power
StZero ==
  [label |-> "zero", lat |-> 510000, lng |-> -1000, power_watts |-> 0,
   frequency_khz |-> 9600, audio |-> <<"audio/", "zero.mp3">>]
\* "power_watts": 1e999 in stations.json parses to Infinity (as does any
\* power whose product with POWER_SCALE exceeds Number.MAX_VALUE)
StHuge ==
  [label |-> "huge", lat |-> 356800, lng |-> 1396900,
   power_watts |-> Infinity, frequency_khz |-> 6000,
   audio |-> <<"audio/", "huge.mp3">>]

\* a record on 25000 kHz without an `audio` field, at StNear's site
StMute ==
  [label |-> "mute", lat |-> 510000, lng |-> -1000, power_watts |-> 50000,
   frequency_khz |-> 25000, audio |-> <<>>]

\* the catalogues stations.json can hold
CataloguePool ==
  { <<StNear, StHigh>>, <<StNear, StTwin>>, <<StTokyo, StZero>>,
    <<StHuge, StTokyo>> }

\* the catalogues of the long sessions of draft C
ChainCatalogues == CataloguePool \cup { <<StNear, StMute>> }

None == [label |-> "none"]

\* positions the geolocation success callback can report
GeoPositions ==
  { [lat |-> 515000, lng |-> -1200],          \* (51.5, -0.12)
    [lat |-> 356800, lng |-> 1396900] }    \* exactly at StTokyo

\* the hardcoded fallback coordinate of each draft (E and F have none)
Fallback(v) ==
  IF v \in {"A", "C"} THEN [lat |-> 524895, lng |-> -18980]
  ELSE [lat |-> 515074, lng |-> -1278]

TunedPool == {6000, 9600, 25000}

\* UTC wall-clock readings, minutes after midnight
UtcPool == {720, 1380}

-----------------------------------------------------------------------------
(* Geo utility *)

\* R * 2 * atan2(sqrt(a), sqrt(1 - a)) evaluated for the coordinates of the
\* pools (1e-4 km)
HaversineTable ==
  <<399042, 1164074, 510000, -1000>> :> 81790408 @@
  <<399042, 1164074, 356800, 1396900>> :> 20926123 @@
  <<515000, -1200, 510000, -1000>> :> 556149 @@
  <<515000, -1200, 356800, 1396900>> :> 95600353 @@
  <<356800, 1396900, 510000, -1000>> :> 96066071 @@
  <<356800, 1396900, 356800, 1396900>> :> 0 @@
  <<524895, -18980, 510000, -1000>> :> 2067595 @@
  <<524895, -18980, 356800, 1396900>> :> 95285773 @@
  <<515074, -1278, 510000, -1000>> :> 564535 @@
  <<515074, -1278, 356800, 1396900>> :> 95596188 @@
  <<356900, 1396900, 510000, -1000>> :> 96055914 @@
  <<356900, 1396900, 356800, 1396900>> :> 11119 @@
  <<0, 0, 510000, -1000>> :> 56709491 @@
  <<0, 0, 356800, 1396900>> :> 142633462

haversineKm(lat1, lon1, lat2, lon2) ==
  HaversineTable[<<lat1, lon1, lat2, lon2>>]

\* Math.pow(d, e) for the distances that arise (d in 1e-4 km, e in tenths,
\* result in tenths)
PowTable ==
  <<81790409, 17>> :> 44832612 @@
  <<81790409, 18>> :> 110373365 @@
  <<20926124, 17>> :> 4417443 @@
  <<20926124, 18>> :> 9489424 @@
  <<50000, 17>> :> 154 @@
  <<556150, 17>> :> 9265 @@
  <<564536, 17>> :> 9503 @@
  <<2067596, 17>> :> 86356 @@
  <<56709492, 17>> :> 24055522 @@
  <<95285774, 17>> :> 58122959 @@
  <<95596189, 17>> :> 58445218 @@
  <<95600354, 17>> :> 58449547 @@
  <<96066072, 17>> :> 58934426 @@
  <<142633463, 17>> :> 115392192 @@
  <<556159, 17>> :> 9265 @@
  <<564545, 17>> :> 9504 @@
  <<2067605, 17>> :> 86356 @@
  <<56709501, 17>> :> 24055529 @@
  <<95285783, 17>> :> 58122968 @@
  <<95596198, 17>> :> 58445228 @@
  <<95600363, 17>> :> 58449557 @@
  <<96066081, 17>> :> 58934435 @@
  <<142633472, 17>> :> 115392205 @@
  <<50000, 18>> :> 181 @@
  <<556150, 18>> :> 13847 @@
  <<564536, 18>> :> 14225 @@
  <<2067596, 18>> :> 147176 @@
  <<56709492, 18>> :> 57092671 @@
  <<95285774, 18>> :> 145294950 @@
  <<95596189, 18>> :> 146148056 @@
  <<95600354, 18>> :> 146159518 @@
  <<96066072, 18>> :> 147443645 @@
  <<142633463, 18>> :> 300329897 @@
  <<556159, 18>> :> 13847 @@
  <<564545, 18>> :> 14225 @@
  <<2067605, 18>> :> 147178 @@
  <<56709501, 18>> :> 57092687 @@
  <<95285783, 18>> :> 145294974 @@
  <<95596198, 18>> :> 146148081 @@
  <<95600363, 18>> :> 146159542 @@
  <<96066081, 18>> :> 147443670 @@
  <<142633472, 18>> :> 300329932 @@
  <<96055915, 17>> :> 58923833 @@
  <<96055924, 17>> :> 58923843 @@
  <<96055915, 18>> :> 147415586 @@
  <<96055915, 20>> :> 922673881 @@
  <<11120, 20>> :> 12 @@
  <<10000, 20>> :> 10 @@
  <<556150, 20>> :> 30930 @@
  <<564536, 20>> :> 31870 @@
  <<2067596, 20>> :> 427495 @@
  <<56709492, 20>> :> 321596648 @@
  <<95285774, 20>> :> 907937873 @@
  <<95596189, 20>> :> 913863135 @@
  <<95600354, 20>> :> 913942768 @@
  <<96066072, 20>> :> 922869019 @@
  <<142633463, 20>> :> 2034430477


Pow(d, e) == PowTable[<<d, e>>]

-----------------------------------------------------------------------------
(* Day/night estimator *)

HourT == 15 * 10 ^ 4
DayT == 24 * HourT

RoundLngOver15(lng) == (lng + 75000) \div 150000

isStationNight(v, station, now) ==
  IF v = "E"
  THEN LET utcHour   == now \div 60
           localHour == JsMod(utcHour + RoundLngOver15(station.lng) + 24, 24)
       IN localHour >= 18 \/ localHour <= 6
  ELSE LET nowUtcH == now * (HourT \div 60)
           offset  == station.lng
           local   == JsMod(JsMod(nowUtcH + offset, DayT) + DayT, DayT)
       IN local < 6 * HourT \/ local >= 18 * HourT

-----------------------------------------------------------------------------
(* Propagation model *)

HasNullCheck(v) == v \in {"A", "C"}

PowerScaleNum(v) == IF v = "B" THEN 60 ELSE IF v = "D" THEN 1 ELSE 1500
PowerScaleDen(v) == IF v = "D" THEN 10000 ELSE 1
DistMin(v) == IF v = "D" THEN 10000 ELSE 50000
DistExp(v) == IF v = "B" THEN 18 ELSE IF v = "D" THEN 20 ELSE 17
DistEps(v) == IF v = "E" THEN 10 ELSE 1
\* Fixed-point unit of the product x: 1e-6, or 1e-3 when x is 1000 or more
\* (a strong local station), so that x stays within 32 bits
XScale(v, scaled, powD) ==
  IF v # "D" /\ IsFinite(scaled) /\ (scaled * 10) \div powD >= 1000
  THEN 10 ^ 3 ELSE 10 ^ 6
\* the constant added to x in the normalising map: 1, or 0.5 in D
NormAdd(v, scale) == IF v = "D" THEN scale \div 2 ELSE scale

\* a match factor that is lowest on frequency
offFrequencyFactor(v, stationFreqKHz, tunedFreqKHz, stationIsNight) ==
  IF stationFreqKHz = tunedFreqKHz THEN 0 ELSE FracScale

\* result in FracScale
frequencyMatchFactor(v, stationFreqKHz, tunedFreqKHz, stationIsNight) ==
  IF stationFreqKHz = NaN THEN NaN
  ELSE LET delta == Abs(stationFreqKHz - tunedFreqKHz)
       IN IF v = "E"
          THEN LET BW == IF stationIsNight THEN 40000 ELSE 25000
               IN ExpNeg(MulDiv(delta, Milli, BW))
          ELSE IF v = "D"
          THEN LET bandwidth == IF stationIsNight THEN 8000 ELSE 12000
                   half == bandwidth \div 2
               IN clamp01(ExpNeg(MulDiv(delta * delta, Milli, 2 * half * half)),
                          FracScale)
          ELSE LET bandwidth == IF stationIsNight THEN 14000 ELSE 18000
               IN ExpNeg(MulDiv(delta * delta, Milli, 2 * bandwidth * bandwidth))

\* result in Milli
nightBoostFactor(v, night, tunedFreqKHz) ==
  IF ~night THEN Milli
  ELSE IF v = "E" THEN 1400
  ELSE LET boostFactor ==
             clamp01(Milli - (((tunedFreqKHz - 3000) * Milli) \div 12000), Milli)
       IN lerp(Milli, IF v = "D" THEN 1800 ELSE 1500, boostFactor)

\* 1 / (1 + x): a map that falls as x grows
NormalizeFalling(v, x, scale) ==
  IF x = NaN THEN NaN
  ELSE IF x = Infinity THEN 0
  ELSE MulDiv(scale, FracScale, x + NormAdd(v, scale))

\* x / (1 + x)   (x / (x + 0.5) in D), result in FracScale
Normalize(v, x, scale) ==
  IF x = NaN THEN NaN
  ELSE IF x = Infinity THEN NaN            \* Infinity / Infinity
  ELSE MulDiv(x, FracScale, x + NormAdd(v, scale))

\* computeStationSignalFraction(station, freqKHz) with the globals userLat,
\* userLng and the clock reading made explicit; result in FracScale
SignalFraction(v, station, freqKHz, lat, lng, now) ==
  IF HasNullCheck(v) /\ (lat = Null \/ lng = Null) THEN 0
  ELSE
    LET dKm      == haversineKm(ToNumber(lat), ToNumber(lng),
                                station.lat, station.lng) + DistEps(v)
        powD     == Pow(Max(dKm, DistMin(v)), DistExp(v))
        scaled   == IF IsFinite(station.power_watts)
                    THEN station.power_watts * PowerScaleNum(v)
                    ELSE station.power_watts
        scale    == XScale(v, scaled, powD)
        distPart == NumMulDiv(scaled, (10 * scale) \div PowerScaleDen(v), powD)
        night    == isStationNight(v, station, now)
        freqPart == frequencyMatchFactor(v, station.frequency_khz, freqKHz,
                                         night)
        boost    == nightBoostFactor(v, night, freqKHz)
        x        == NumMulDiv(NumMulDiv(distPart, freqPart, FracScale),
                              boost, Milli)
    IN clamp01(Normalize(v, x, scale), FracScale)

\* SignalFraction tabulated over the finite pools of its arguments (merging
\* with the empty function makes the table an explicit one)
Listeners ==
  {<<Null, Null>>} \cup {<<p.lat, p.lng>> : p \in GeoPositions}
  \cup {<<Fallback(v).lat, Fallback(v).lng>> : v \in Variants}

StationPool == UNION {{cat[i] : i \in 1..Len(cat)} : cat \in ChainCatalogues}

SignalFractionTable ==
  [k \in (Variants \ {"F"}) \X StationPool \X TunedPool \X Listeners
          \X UtcPool |->
     SignalFraction(k[1], k[2], k[3], k[4][1], k[4][2], k[5])] @@ <<>>

\* the limits of the tuning controls (min and max of the inputs)
MinFreq == 150
MaxFreq == 30000

\* scanStepKHz and the lock threshold 0.18 (FracScale)
ScanStep == 100
ScanThreshold == 180000

\* value-changing tuning gestures explored in one session
MaxClicks == 1

\* texts typed into the number field: empty, below min, above max
EditPool == {Null, 2, 40000}

\* frequency offsets of a knob drag, Math.round(dy / sensitivity) * 10
KnobPool == {-10, 30000}

\* Number(field.value): the empty text converts to 0
FieldNumber(v) == IF v = Null THEN 0 ELSE v

\* Math.max(min, Math.min(max, v)); a range input also brings an assigned
\* value into [min, max] this way
clampTuned(v) == Max(MinFreq, Min(MaxFreq, v))

\* a scan step that never wraps
scanNoWrap(v) == v + ScanStep

\* the scan frequency after one step: up by scanStepKHz, from above max
\* back to min
scanNext(v) == IF v + ScanStep > MaxFreq THEN MinFreq ELSE v + ScanStep

\* the catalogues of the tuning sessions: a strong local pair and a pair
\* too weak to lock on
TuneCatalogues == { <<StNear, StHigh>>, <<StTokyo, StZero>> }

\* the listener of the tuning sessions, (51.5, -0.12), and their clock
TuneListener == <<515000, -1200>>
TuneUtc == 720

computeStationSignalFraction(station, freqKHz, now) ==
  IF freqKHz \in TunedPool /\ <<userLat, userLng>> \in Listeners
  THEN SignalFractionTable[<<variant, station, freqKHz, <<userLat, userLng>>,
                             now>>]
  ELSE SignalFraction(variant, station, freqKHz, userLat, userLng, now)

-----------------------------------------------------------------------------
(* Station selection *)

\* the fraction of every station of the catalogue, in load order
Fractions(freqKHz, now) ==
  [i \in 1..Len(stations) |->
     computeStationSignalFraction(stations[i], freqKHz, now)]

\* the mutation of Greater that lets an equal fraction replace the best
GreaterOrEqual(f, bestF) ==
  f # NaN /\ bestF # NaN /\ (f = Infinity \/ (bestF # Infinity /\ f >= bestF))

\* f > bestF; a comparison with NaN is false
Greater(f, bestF) ==
  /\ f # NaN /\ bestF # NaN
  /\ IF f = Infinity THEN bestF # Infinity
     ELSE bestF # Infinity /\ f > bestF

\* the loop `for (const s of stations)` from index i on
RECURSIVE BestFrom(_, _, _, _)
BestFrom(sts, fracs, i, best) ==
  IF i > Len(sts) THEN best
  ELSE BestFrom(sts, fracs, i + 1,
                IF Greater(fracs[i], best.fraction)
                THEN [station |-> sts[i], fraction |-> fracs[i],
                      threw |-> FALSE]
                ELSE best)

\* a selector whose running maximum starts at 1 instead of 0
FullScaleNoStation == [station |-> None, fraction |-> FracScale, threw |-> FALSE]

NoStation == [station |-> None, fraction |-> 0, threw |-> FALSE]

\* a selector that seeds the loop with stations[0] instead of (null, 0):
\* reading a field of stations[0] throws on an empty catalogue
SeedFromFirst(sts, fracs) ==
  IF Len(sts) = 0 THEN [station |-> None, fraction |-> NaN, threw |-> TRUE]
  ELSE BestFrom(sts, fracs, 1, NoStation)

\* findBestStation (A, B, C) and chooseBestStation (D)
findBestStation(sts, fracs) ==
  IF Len(sts) = 0 THEN NoStation
  ELSE BestFrom(sts, fracs, 1, NoStation)

\* draft E: the same loop without the empty-catalogue test
getStrongestStation(sts, fracs) == BestFrom(sts, fracs, 1, NoStation)

Select(v, sts, fracs) ==
  IF v = "E" THEN getStrongestStation(sts, fracs)
  ELSE findBestStation(sts, fracs)

-----------------------------------------------------------------------------
(* Interval timers: `timer` says that updateTimer holds a handle, `live` *)
(* is the number of live interval timers of the update loop              *)

\* a start that makes a timer and drops the handle it held
leakInterval(timer, live) == live + 1

\* startUpdateLoop (A, C): `if (updateTimer) return; updateTimer =
\* setInterval(...)`
startUpdateLoop(timer, live) == IF timer THEN live ELSE live + 1

\* startRadio (B, D): `if(updateTimer) clearInterval(updateTimer);
\* updateTimer = setInterval(...)`
replaceInterval(timer, live) == (IF timer THEN live - 1 ELSE live) + 1

\* stopUpdateLoop (A, C), stopRadio (B, D): `if (updateTimer){
\* clearInterval(updateTimer); updateTimer = null; }`
stopUpdateLoop(timer, live) == IF timer THEN live - 1 ELSE live

-----------------------------------------------------------------------------
(* Audio engine *)

\* an init function that builds a graph on every call
initAudioUnguarded(ctx) == 1

\* initAudio (A), initAudioGraph (B), initAudioCore (C), initAudioIfNeeded
\* (D): the number of graphs the call builds when ctx contexts exist
\* already -- `if (audioCtx) return;`
initAudio(ctx) == IF ctx > 0 THEN 0 ELSE 1

\* a fraction (FracScale) as a Milli number
ToMilli(fraction) == fraction \div Milli

Write(param, value) == [param |-> param, value |-> value]

\* parameter writes made with no test of the audio graph
Unguarded(ctx, writes) == writes

\* `if (!audioCtx) return;` at the head of the functions that apply audio
\* parameters: the writes that are made when ctx contexts exist
WhenBuilt(ctx, writes) == IF ctx > 0 THEN writes ELSE {}

\* `if (node) node.gain...`: a write guarded by the node itself
IfNode(node, write) == IF node # Null THEN {write} ELSE {}

\* an update that restarts the phase from the elapsed time alone
restartPhase(phase, qsbRate, dt) == (qsbRate * dt) \div Milli

\* `qsbPhase += qsbRate * dt;` -- phase in Milli cycles, qsbRate in mHz,
\* dt in ms; the sum is stored as it is
advancePhase(phase, qsbRate, dt) == phase + ((qsbRate * dt) \div Milli)

\* applyAudioUpdates (A) and applyAudioParams (C): the JS LFO.  rnd is the
\* Math.random() draw (Milli), dt = now - lastTime the time since the
\* previous call (ms); the call stores now in lastTime
applyAudioUpdates(strength, rnd, dt, phase) ==
  LET s          == ToMilli(strength)
      baseGain   == clamp01(Pow09(s), Milli)
      noiseLvl   == lerp(900, 20, s)
      qsbDepth   == clamp01(Milli - s, Milli)
      qsbRate    == lerp(80, 1200, qsbDepth)
      newPhase   == advancePhase(phase, qsbRate, dt)
      lfo        == SinCycle(newPhase)
      stochastic == (rnd - 500) \div 5
      mod        == (((lfo * qsbDepth) \div Milli) * (((400 + stochastic)
                       * baseGain) \div Milli)) \div Milli
      final      == Max(0, baseGain + mod)
  IN [station |-> final, noise |-> noiseLvl, qsb |-> Null,
      phase |-> newPhase, elapsed |-> dt,
      writes |-> {Write("station", baseGain), Write("station", final),
                  Write("noise", noiseLvl)}]

\* applyAudioParams (B): the LFO is an oscillator whose output, scaled by
\* qsbGain, is added to stationGain.gain by the audio graph
applyAudioParamsB(fraction, rnd, phase) ==
  LET s          == ToMilli(fraction)
      stationVol == clamp01(Pow09(s), Milli)
      noiseLevel == clamp01(lerp(900, 20, s), Milli)
      baseDepth  == clamp01(Milli - s, Milli)
      stochastic == (rnd * 3) \div 10
      qsbDepth   == clamp01((baseDepth * (600 + stochastic)) \div Milli, Milli)
      depthGain  == (((qsbDepth * 600) \div Milli) * stationVol) \div Milli
  IN [station |-> stationVol, noise |-> noiseLevel, qsb |-> depthGain,
      phase |-> phase,
      writes |-> {Write("station", stationVol), Write("noise", noiseLevel),
                  Write("qsb", depthGain)}]

\* applyAudioParameters (D)
applyAudioParameters(fraction, phase) ==
  LET s          == ToMilli(fraction)
      stationVol == clamp01((s * 12) \div 10, Milli)
      noiseLevel == clamp01(lerp(900, 40, s), Milli)
  IN [station |-> stationVol, noise |-> noiseLevel, qsb |-> Null,
      phase |-> phase,
      writes |-> {Write("station", stationVol), Write("noise", noiseLevel)}]

\* the gain assignments of updateAudio (E)
updateAudioE(strength, phase) ==
  LET s == ToMilli(strength)
  IN [station |-> s, noise |-> lerp(400, 20, s), qsb |-> Null,
      phase |-> phase,
      writes |-> {Write("station", s), Write("noise", lerp(400, 20, s))}]

\* the lowest value stationGain.gain takes over an LFO cycle: in B the
\* oscillator output (in [-1, 1]) times qsbGain is added to the target
LowestStationGain ==
  IF variant = "B" /\ stationGain # Null THEN stationGain - qsbGain
  ELSE IF stationGain # Null THEN stationGain
  ELSE 0

-----------------------------------------------------------------------------
(* Draft F: selectStation and updateAudio *)

\* the strength of selectStation (1e-6): tunedPenalty * distancePenalty *
\* (power / 10000); the draft reads the record's frequency and power as
\* s.freq and s.power
selectStationStrength(s, frequency) ==
  LET df           == Abs(s.frequency_khz - frequency)
      tunedPenalty == Max(0, Milli - (df \div 3))
      distance     == haversineKm(ToNumber(userLat), ToNumber(userLng),
                                  s.lat, s.lng)
      floorKm      == Max(distance, 10 ^ 4)
  IN IF s.power_watts = Infinity
     THEN (IF tunedPenalty = 0 THEN NaN ELSE Infinity)
     ELSE MulDiv(tunedPenalty * s.power_watts, Milli, floorKm)

selectStation(frequency) ==
  BestFrom(stations,
           [i \in 1..Len(stations) |->
              selectStationStrength(stations[i], frequency)],
           1, NoStation)

-----------------------------------------------------------------------------
(* Observation of a handler run *)

NoRef == <<>>
RefOf(station) == IF station = None THEN NoRef ELSE station.audio

\* the width a handler gives the signal meter, in tenths of a percent:
\* Math.round(fraction * 100) + '%' (A, B, C, and D when a station was
\* chosen; D writes '0%' otherwise), (strength * 100).toFixed(1) + "%" (E),
\* Math.min(100, Math.max(0, str * 100)) + "%" (F)
meterWidth(v, best) ==
  IF best.fraction = NaN THEN NaN
  ELSE IF v = "D" /\ best.station = None THEN 0
  ELSE IF v = "E" THEN (best.fraction + 500) \div Milli
  ELSE IF v = "F"
  THEN (IF best.fraction = Infinity THEN Milli
        ELSE Min(Milli, Max(0, best.fraction \div Milli)))
  ELSE 10 * ((best.fraction + 5000) \div 10000)

\* the tuned frequency a timer callback reads:
\* Number(freqNumber.value || freqRange.value || 6000) in A and C (an empty
\* number field is falsy), Number(freqNumber.value) in B and D (an empty
\* field converts to 0), currentFreqKHz in E
ReadTuned(v) ==
  IF v \in {"A", "C"} THEN (IF freqNumber # Null THEN freqNumber ELSE freqRange)
  ELSE IF freqNumber = Null THEN 0
  ELSE freqNumber

\* whether a play() promise that rejects reaches no rejection handler:
\* `.catch(...)` and `await` inside try handle it, a plain try / catch
\* around the call does not, nor does a bare call
Unhandled(site, rejected) == rejected /\ site \notin {"catch", "await"}

\* the outcomes of play() under the autoplay policy: allowed once the page
\* has had a user gesture, otherwise up to the browser (rejected = TRUE)
PlayRejected(gesture) == IF gesture THEN {FALSE} ELSE BOOLEAN

EffInit ==
  [op |-> "none", fracs |-> <<>>, posKnown |-> FALSE, station |-> None,
   fraction |-> 0, threw |-> FALSE, prevRef |-> NoRef, ref |-> NoRef,
   srcAssigned |-> FALSE, created |-> FALSE, played |-> FALSE,
   writes |-> {}, meter |-> 0, freq |-> Null, unhandled |-> FALSE]

\* a handler that ran the station selector: fracs are the fractions
\* computeStationSignalFraction returned, best the selector's result
Observe(op, fracs, best, srcAssigned, created, played, threw, writes) ==
  [op |-> op, fracs |-> fracs,
   posKnown |-> (userLat # Null /\ userLng # Null),
   station |-> best.station, fraction |-> best.fraction, threw |-> threw,
   prevRef |-> eff.ref, ref |-> RefOf(best.station),
   srcAssigned |-> srcAssigned, created |-> created, played |-> played,
   writes |-> writes,
   meter |-> IF op = "select" THEN eff.meter ELSE meterWidth(variant, best),
   freq |-> ReadTuned(variant), unhandled |-> FALSE]

\* a handler that ran no station selection
Plain(op, writes) ==
  [eff EXCEPT !.op = op, !.fracs = <<>>, !.threw = FALSE,
              !.srcAssigned = FALSE, !.created = FALSE, !.played = FALSE,
              !.writes = writes, !.unhandled = FALSE]

-----------------------------------------------------------------------------
(* Bounds *)

\* timer ticks and animation frames explored in one session
MaxTicks == 2

\* Math.random() draws (Milli): the two ends of [0, 1)
RandomPool == {0, 999}

\* performance.now() - lastTime (ms).  lastTime is first taken when the
\* script loads, so the first update measures the time since page load
DtPool == {2500}

\* the clock never runs backwards
Later == {t \in UtcPool : t >= utc}

-----------------------------------------------------------------------------
(* Initial state: the script has been parsed, its top-level statements up *)
(* to the first asynchronous request have run.  The page is opened at     *)
(* noon UTC; later clock readings are drawn from Later.                   *)

\* the src of the page's <audio id="radio-audio"> element (A, B, D)
PageAudio == Resolve(<<"audio/", "station.mp3">>)

Init ==
  /\ variant \in Variants
  /\ lastTime = 0
  /\ intervals = 0
  /\ scanIntervals = 0
  /\ resuming = 0
  /\ boot = "fetching"
  /\ geo = "idle"
  /\ stations = <<>>
  /\ userLat = Null
  /\ userLng = Null
  /\ freqNumber = 6000
  /\ utc = 720
  /\ audioCtx = (IF variant = "F" THEN 1 ELSE 0)
  /\ noiseStarts = 0
  /\ elSrc = (IF variant \in {"A", "B", "D"} THEN PageAudio ELSE <<>>)
  /\ elSources = 0
  /\ stationGain = (IF variant = "F" THEN 0 ELSE Null)
  /\ noiseGain = Null
  /\ qsbGain = Null
  /\ chains = <<>>
  /\ lastSwitch = 0
  /\ pending = <<>>
  /\ qsbPhase = 0
  /\ updateTimer = FALSE
  /\ startEnabled = FALSE
  /\ stopEnabled = FALSE
  /\ steps = 0
  /\ activated = FALSE
  /\ freqRange = freqNumber
  /\ editing = FALSE
  /\ startVal = Null
  /\ scanning = FALSE
  /\ scanPos = 0
  /\ clicks = 0
  /\ eff = EffInit

-----------------------------------------------------------------------------
(* Boot: catalogue load and geolocation *)

HasFallback(v) == v \in {"A", "B", "C", "D"}

\* the continuation of boot() / init() once the stations.json request has
\* settled with catalogue sts; `supported` is navigator.geolocation.  In F
\* the request runs beside the rest of the script and only stores the data.
Loaded(sts, supported) ==
  /\ boot = "fetching"
  /\ boot' = "loaded"
  /\ stations' = sts
  /\ IF variant = "F"
     THEN /\ supported
          /\ UNCHANGED <<geo, userLat, userLng, startEnabled>>
     ELSE /\ geo' = (IF supported THEN "pending" ELSE "unsupported")
          /\ IF ~supported /\ HasFallback(variant)
             THEN /\ userLat' = Fallback(variant).lat
                  /\ userLng' = Fallback(variant).lng
             ELSE UNCHANGED <<userLat, userLng>>
          /\ startEnabled' = (\/ variant \in {"A", "C"}
                              \/ (~supported /\ variant \in {"B", "D"}))
  /\ eff' = Plain("load", {})
  /\ UNCHANGED <<tuning, activated, freqRange>>
  /\ UNCHANGED <<variant, lastTime, freqNumber, utc, audioCtx, noiseStarts,
                 elSrc,
                 elSources, stationGain, noiseGain, qsbGain, chains,
                 lastSwitch, pending, qsbPhase, updateTimer, stopEnabled,
                 steps>>
  /\ UNCHANGED timers

LoadOk(cat, supported) == Loaded(cat, supported)

\* fetch or JSON parsing failed: the catalogue stays / becomes empty
LoadFail(supported) == Loaded(<<>>, supported)

\* draft F: the top-level getCurrentPosition call; without
\* navigator.geolocation it throws and the rest of the script never runs
scriptF(supported) ==
  /\ variant = "F"
  /\ geo = "idle"
  /\ geo' = (IF supported THEN "pending" ELSE "unsupported")
  /\ eff' = Plain("script", {})
  /\ UNCHANGED <<tuning, activated, freqRange>>
  /\ UNCHANGED <<variant, lastTime, boot, stations, userLat, userLng, freqNumber, utc,
                 audioCtx, noiseStarts, elSrc, elSources, stationGain,
                 noiseGain, qsbGain, chains, lastSwitch, pending, qsbPhase,
                 updateTimer, startEnabled, stopEnabled, steps>>
  /\ UNCHANGED timers

\* the geolocation success callback (A, B, C, D, F)
GeoSuccess(p) ==
  /\ variant # "E"
  /\ geo = "pending"
  /\ geo' = "ok"
  /\ userLat' = p.lat
  /\ userLng' = p.lng
  /\ startEnabled' = (startEnabled \/ variant \in {"B", "D", "F"})
  /\ eff' = Plain("geo", {})
  /\ UNCHANGED <<tuning, activated, freqRange>>
  /\ UNCHANGED <<variant, lastTime, boot, stations, freqNumber, utc, audioCtx,
                 noiseStarts, elSrc, elSources, stationGain, noiseGain,
                 qsbGain, chains, lastSwitch, pending, qsbPhase, updateTimer,
                 stopEnabled, steps>>
  /\ UNCHANGED timers

\* the geolocation error callback (denied, unavailable, timeout)
GeoError ==
  /\ geo = "pending"
  /\ geo' = "error"
  /\ IF HasFallback(variant)
     THEN /\ userLat' = Fallback(variant).lat
          /\ userLng' = Fallback(variant).lng
     ELSE UNCHANGED <<userLat, userLng>>
  /\ startEnabled' = (startEnabled \/ variant \in {"B", "D"})
  /\ eff' = Plain("geo", {})
  /\ UNCHANGED <<tuning, activated, freqRange>>
  /\ UNCHANGED <<variant, lastTime, boot, stations, freqNumber, utc, audioCtx,
                 noiseStarts, elSrc, elSources, stationGain, noiseGain,
                 qsbGain, chains, lastSwitch, pending, qsbPhase, updateTimer,
                 stopEnabled, steps>>
  /\ UNCHANGED timers

\* draft E: the success callback runs startApp(): setupAudio(), then the
\* first updateAudio(), which schedules the next animation frame
startApp(p, now) ==
  /\ variant = "E"
  /\ geo = "pending"
  /\ geo' = "ok"
  /\ userLat' = p.lat
  /\ userLng' = p.lng
  /\ utc' = now
  /\ audioCtx' = audioCtx + 1
  /\ noiseStarts' = noiseStarts + 1
  /\ elSrc' = Resolve(<<"audio/", "station.mp3">>)
  /\ elSources' = elSources + 1
  /\ LET fracs == [i \in 1..Len(stations) |->
                     SignalFractionTable[<<"E", stations[i], freqNumber,
                                           <<p.lat, p.lng>>, now>>]]
         best  == getStrongestStation(stations, fracs)
         g     == updateAudioE(best.fraction, qsbPhase)
     IN /\ stationGain' = g.station
        /\ noiseGain' = g.noise
        /\ \E rejected \in PlayRejected(activated) :
              eff' = [Observe("frame", fracs, best, FALSE, FALSE, FALSE, FALSE,
                              g.writes)
                      EXCEPT !.posKnown = TRUE,
                             !.unhandled = Unhandled("bare", rejected)]
  /\ updateTimer' = TRUE
  /\ UNCHANGED <<tuning, activated, freqRange>>
  /\ UNCHANGED <<variant, lastTime, boot, stations, freqNumber, qsbGain, chains,
                 lastSwitch, pending, qsbPhase, startEnabled, stopEnabled,
                 steps>>
  /\ UNCHANGED timers

-----------------------------------------------------------------------------
(* Drafts A and C: Start / Stop / slider *)

\* startRadio of A: initAudio(); resume; play; startUpdateLoop()
startRadioA ==
  /\ variant = "A"
  /\ startEnabled
  /\ LET made == initAudio(audioCtx)
     IN /\ audioCtx' = audioCtx + made
        /\ noiseStarts' = noiseStarts + made
        /\ elSources' = elSources + made
        /\ stationGain' = (IF made > 0 THEN 0 ELSE stationGain)
        /\ noiseGain' = (IF made > 0 THEN 600 ELSE noiseGain)
        /\ eff' = Plain("start", IF made > 0
                                 THEN {Write("station", 0), Write("noise", 600)}
                                 ELSE {})
  /\ startEnabled' = FALSE
  /\ stopEnabled' = TRUE
  /\ updateTimer' = TRUE
  /\ ~editing
  /\ activated' = TRUE
  /\ UNCHANGED <<tuning, freqRange>>
  /\ UNCHANGED <<variant, lastTime, boot, geo, stations, userLat, userLng, freqNumber,
                 utc, elSrc, qsbGain, chains, lastSwitch, pending, qsbPhase,
                 steps>>
  /\ intervals' = startUpdateLoop(updateTimer, intervals)
  /\ UNCHANGED <<scanIntervals, resuming>>

\* stopRadio of A
stopRadioA ==
  /\ variant = "A"
  /\ stopEnabled
  /\ stationGain' = (IF stationGain # Null THEN 0 ELSE stationGain)
  /\ noiseGain' = (IF noiseGain # Null THEN 0 ELSE noiseGain)
  /\ startEnabled' = TRUE
  /\ stopEnabled' = FALSE
  /\ updateTimer' = FALSE
  /\ eff' = Plain("stop", IfNode(stationGain, Write("station", 0))
                          \cup IfNode(noiseGain, Write("noise", 0)))
  /\ ~editing
  /\ activated' = TRUE
  /\ UNCHANGED <<tuning, freqRange>>
  /\ UNCHANGED <<variant, lastTime, boot, geo, stations, userLat, userLng, freqNumber,
                 utc, audioCtx, noiseStarts, elSrc, elSources, qsbGain,
                 chains, lastSwitch, pending, qsbPhase, steps>>
  /\ intervals' = stopUpdateLoop(updateTimer, intervals)
  /\ UNCHANGED <<scanIntervals, resuming>>

\* a chain list with the element of chain i playing or paused, or with its
\* pause scheduled (i = 0: no chain)
WithPaused(cs, i, p) == IF i = 0 THEN cs ELSE [cs EXCEPT ![i].paused = p]
WithPauseDue(cs, i) == IF i = 0 THEN cs ELSE [cs EXCEPT ![i].pauseDue = TRUE]

\* startRadio of C: initAudioCore(); resume; play the active element;
\* startUpdateLoop()
startRadioC ==
  /\ variant = "C"
  /\ startEnabled
  /\ LET made == initAudio(audioCtx)
     IN /\ audioCtx' = audioCtx + made
        /\ noiseStarts' = noiseStarts + made
        /\ noiseGain' = (IF made > 0 THEN 600 ELSE noiseGain)
        /\ eff' = Plain("start", IF made > 0 THEN {Write("noise", 600)}
                                 ELSE {})
  /\ chains' = WithPaused(chains, lastSwitch, FALSE)
  /\ startEnabled' = FALSE
  /\ stopEnabled' = TRUE
  /\ updateTimer' = TRUE
  /\ ~editing
  /\ activated' = TRUE
  /\ UNCHANGED <<tuning, freqRange>>
  /\ UNCHANGED <<variant, lastTime, boot, geo, stations, userLat, userLng, freqNumber,
                 utc, elSrc, elSources, stationGain, qsbGain,
                 lastSwitch, pending, qsbPhase, steps>>
  /\ intervals' = startUpdateLoop(updateTimer, intervals)
  /\ UNCHANGED <<scanIntervals, resuming>>

\* a chain list with the gain target of chain i set to g (i = 0: no chain)
WithGain(cs, i, g) == IF i = 0 THEN cs ELSE [cs EXCEPT ![i].gain = g]

\* stopRadio of C
stopRadioC ==
  /\ variant = "C"
  /\ stopEnabled
  /\ chains' = WithPaused(WithGain(chains, lastSwitch, 0), lastSwitch, TRUE)
  /\ noiseGain' = (IF noiseGain # Null THEN 0 ELSE noiseGain)
  /\ startEnabled' = TRUE
  /\ stopEnabled' = FALSE
  /\ updateTimer' = FALSE
  /\ eff' = Plain("stop", IfNode(noiseGain, Write("noise", 0))
                          \cup (IF lastSwitch # 0 THEN {Write("station", 0)}
                                ELSE {}))
  /\ ~editing
  /\ activated' = TRUE
  /\ UNCHANGED <<tuning, freqRange>>
  /\ UNCHANGED <<variant, lastTime, boot, geo, stations, userLat, userLng, freqNumber,
                 utc, audioCtx, noiseStarts, elSrc, elSources, stationGain,
                 qsbGain, lastSwitch, pending, qsbPhase, steps>>
  /\ intervals' = stopUpdateLoop(updateTimer, intervals)
  /\ UNCHANGED <<scanIntervals, resuming>>

\* the slider `input` handler of A, C, D (registered at wiring time) and of
\* E (registered by startApp): it only stores the frequency
sliderInput(f) ==
  /\ \/ variant \in {"A", "C"} /\ boot = "loaded"
     \/ variant = "D"
     \/ variant = "E" /\ geo = "ok"
  /\ f # freqNumber
  /\ freqNumber' = f
  /\ eff' = Plain("input", {})
  /\ ~editing
  /\ activated' = TRUE
  /\ freqRange' = f
  /\ UNCHANGED tuning
  /\ UNCHANGED <<variant, lastTime, boot, geo, stations, userLat, userLng, utc,
                 audioCtx, noiseStarts, elSrc, elSources, stationGain,
                 noiseGain, qsbGain, chains, lastSwitch, pending, qsbPhase,
                 updateTimer, startEnabled, stopEnabled, steps>>
  /\ UNCHANGED timers

-----------------------------------------------------------------------------
(* Draft A: the update timer callback *)

tickA(now, rnd, dt) ==
  /\ variant = "A"
  /\ updateTimer
  /\ steps < MaxTicks
  /\ LET fracs  == Fractions(ReadTuned("A"), now)
         r      == findBestStation(stations, fracs)
         made   == initAudio(audioCtx)
         switch == /\ r.station # None
                   /\ r.station.audio # <<>>
                   /\ (elSrc = <<>> \/ ~Contains(elSrc, r.station.audio))
         g      == applyAudioUpdates(r.fraction, rnd, dt, qsbPhase)
     IN /\ audioCtx' = audioCtx + made
        /\ noiseStarts' = noiseStarts + made
        /\ elSources' = elSources + made
        /\ elSrc' = (IF switch THEN Resolve(r.station.audio) ELSE elSrc)
        /\ stationGain' = g.station
        /\ noiseGain' = g.noise
        /\ qsbPhase' = g.phase
        /\ lastTime' = lastTime + dt
        /\ eff' = Observe("tick", fracs, r, switch, FALSE, switch, FALSE,
                          g.writes)
  /\ utc' = now
  /\ steps' = steps + 1
  /\ UNCHANGED <<tuning, activated, freqRange>>
  /\ UNCHANGED <<variant, boot, geo, stations, userLat, userLng, freqNumber,
                 qsbGain, chains, lastSwitch, pending, updateTimer,
                 startEnabled, stopEnabled>>
  /\ UNCHANGED timers

-----------------------------------------------------------------------------
(* Draft B: findAndApply and the handlers that call it *)

\* findAndApply(freqKHz) run by handler `op`; made is the number of graphs
\* the handler has built before the call.  applyAudioParams returns at once
\* while no AudioContext exists.
findAndApply(op, freqKHz, now, rnd, made) ==
  LET fracs  == Fractions(freqKHz, now)
      best   == findBestStation(stations, fracs)
      switch == best.station # None /\ ~Contains(elSrc, best.station.audio)
      g      == applyAudioParamsB(best.fraction, rnd, qsbPhase)
      hasCtx == audioCtx + made > 0
      gesture == activated \/ op \in {"start", "input"}
  IN /\ elSrc' = (IF switch THEN Resolve(best.station.audio) ELSE elSrc)
     /\ stationGain' = (IF hasCtx THEN g.station ELSE stationGain)
     /\ noiseGain' = (IF hasCtx THEN g.noise ELSE noiseGain)
     /\ qsbGain' = (IF hasCtx THEN g.qsb ELSE qsbGain)
     /\ eff' = [Observe(op, fracs, best, switch, FALSE, switch, FALSE,
                        WhenBuilt(audioCtx + made, g.writes))
                EXCEPT !.freq = freqKHz,
                       !.unhandled = Unhandled("try", switch /\ ~gesture)]
     /\ utc' = now

\* startRadio of B: initAudioGraph(); an immediate findAndApply; the timer
\* is cleared and set again
startRadioB(now, rnd) ==
  /\ variant = "B"
  /\ startEnabled
  /\ LET made == initAudio(audioCtx)
     IN /\ audioCtx' = audioCtx + made
        /\ noiseStarts' = noiseStarts + made
        /\ elSources' = elSources + made
        /\ findAndApply("start", ReadTuned("B"), now, rnd, made)
  /\ startEnabled' = FALSE
  /\ stopEnabled' = TRUE
  /\ updateTimer' = TRUE
  /\ ~editing
  /\ activated' = TRUE
  /\ UNCHANGED <<tuning, freqRange>>
  /\ UNCHANGED <<variant, lastTime, boot, geo, stations, userLat, userLng, freqNumber,
                 chains, lastSwitch, pending, qsbPhase, steps>>
  /\ intervals' = replaceInterval(updateTimer, intervals)
  /\ UNCHANGED <<scanIntervals, resuming>>

\* stopRadio of B: the two gain targets ramp to 0; qsbGain is left alone
stopRadioB ==
  /\ variant = "B"
  /\ stopEnabled
  /\ updateTimer' = FALSE
  /\ stationGain' = (IF audioCtx > 0 /\ stationGain # Null THEN 0
                     ELSE stationGain)
  /\ noiseGain' = (IF noiseGain # Null THEN 0 ELSE noiseGain)
  /\ startEnabled' = TRUE
  /\ stopEnabled' = FALSE
  /\ eff' = Plain("stop",
                  (IF audioCtx > 0 THEN IfNode(stationGain, Write("station", 0))
                   ELSE {})
                  \cup IfNode(noiseGain, Write("noise", 0)))
  /\ ~editing
  /\ activated' = TRUE
  /\ scanning' = FALSE
  /\ UNCHANGED <<editing, startVal, scanPos, clicks, freqRange>>
  /\ UNCHANGED <<variant, lastTime, boot, geo, stations, userLat, userLng, freqNumber,
                 utc, audioCtx, noiseStarts, elSrc, elSources, qsbGain,
                 chains, lastSwitch, pending, qsbPhase, steps>>
  /\ intervals' = stopUpdateLoop(updateTimer, intervals)
  /\ scanIntervals' = scanIntervals - (IF scanning THEN 1 ELSE 0)
  /\ UNCHANGED resuming

\* the update timer callback of B
tickB(now, rnd) ==
  /\ variant = "B"
  /\ updateTimer
  /\ steps < MaxTicks
  /\ findAndApply("tick", ReadTuned("B"), now, rnd, 0)
  /\ steps' = steps + 1
  /\ UNCHANGED <<tuning, activated, freqRange>>
  /\ UNCHANGED <<variant, lastTime, boot, geo, stations, userLat, userLng, freqNumber,
                 audioCtx, noiseStarts, elSources, chains, lastSwitch,
                 pending, qsbPhase, updateTimer, startEnabled, stopEnabled>>
  /\ UNCHANGED timers

\* the slider `input` handler of B, registered by the top-level script
sliderInputB(f, now, rnd) ==
  /\ variant = "B"
  /\ f # freqNumber
  /\ freqNumber' = f
  /\ findAndApply("input", f, now, rnd, 0)
  /\ ~editing
  /\ activated' = TRUE
  /\ freqRange' = f
  /\ UNCHANGED tuning
  /\ UNCHANGED <<variant, lastTime, boot, geo, stations, userLat, userLng, audioCtx,
                 noiseStarts, elSources, chains, lastSwitch, pending,
                 qsbPhase, updateTimer, startEnabled, stopEnabled, steps>>
  /\ UNCHANGED timers

-----------------------------------------------------------------------------
(* Draft D *)

\* chooseBestStation + applyAudioParameters, as startRadio and its timer
\* callback run them; D never changes the source of the audio element
chooseAndApply(op, now, made) ==
  LET fracs  == Fractions(ReadTuned("D"), now)
      c      == findBestStation(stations, fracs)
      g      == applyAudioParameters(c.fraction, qsbPhase)
      hasCtx == audioCtx + made > 0
  IN /\ stationGain' = (IF hasCtx THEN g.station ELSE stationGain)
     /\ noiseGain' = (IF hasCtx THEN g.noise ELSE noiseGain)
     /\ eff' = Observe(op, fracs, c, FALSE, FALSE, FALSE, FALSE,
                       WhenBuilt(audioCtx + made, g.writes))
     /\ utc' = now

\* the Start click handler of D: initAudioIfNeeded(); resume; startRadio()
startRadioD(now) ==
  /\ variant = "D"
  /\ startEnabled
  /\ LET made == initAudio(audioCtx)
     IN /\ audioCtx' = audioCtx + made
        /\ noiseStarts' = noiseStarts + made
        /\ elSources' = elSources + made
        /\ chooseAndApply("start", now, made)
  /\ startEnabled' = FALSE
  /\ stopEnabled' = TRUE
  /\ updateTimer' = TRUE
  /\ ~editing
  /\ activated' = TRUE
  /\ UNCHANGED <<tuning, freqRange>>
  /\ UNCHANGED <<variant, lastTime, boot, geo, stations, userLat, userLng, freqNumber,
                 elSrc, qsbGain, chains, lastSwitch, pending, qsbPhase,
                 steps>>
  /\ intervals' = replaceInterval(updateTimer, intervals)
  /\ UNCHANGED <<scanIntervals, resuming>>

\* the Stop click handler of D: stopRadio(); the Start button is enabled
stopRadioD ==
  /\ variant = "D"
  /\ stopEnabled
  /\ updateTimer' = FALSE
  /\ stationGain' = (IF audioCtx > 0 THEN 0 ELSE stationGain)
  /\ noiseGain' = (IF audioCtx > 0 THEN 0 ELSE noiseGain)
  /\ startEnabled' = TRUE
  /\ stopEnabled' = FALSE
  /\ eff' = Plain("stop", WhenBuilt(audioCtx, {Write("station", 0),
                                                 Write("noise", 0)}))
  /\ ~editing
  /\ activated' = TRUE
  /\ UNCHANGED <<tuning, freqRange>>
  /\ UNCHANGED <<variant, lastTime, boot, geo, stations, userLat, userLng, freqNumber,
                 utc, audioCtx, noiseStarts, elSrc, elSources, qsbGain,
                 chains, lastSwitch, pending, qsbPhase, steps>>
  /\ intervals' = stopUpdateLoop(updateTimer, intervals)
  /\ UNCHANGED <<scanIntervals, resuming>>

\* the update timer callback of D
tickD(now) ==
  /\ variant = "D"
  /\ updateTimer
  /\ steps < MaxTicks
  /\ chooseAndApply("tick", now, 0)
  /\ steps' = steps + 1
  /\ UNCHANGED <<tuning, activated, freqRange>>
  /\ UNCHANGED <<variant, lastTime, boot, geo, stations, userLat, userLng, freqNumber,
                 audioCtx, noiseStarts, elSrc, elSources, qsbGain, chains,
                 lastSwitch, pending, qsbPhase, updateTimer, startEnabled,
                 stopEnabled>>
  /\ UNCHANGED timers

-----------------------------------------------------------------------------
(* Draft E: the animation-frame loop *)

frameE(now) ==
  /\ variant = "E"
  /\ updateTimer
  /\ steps < MaxTicks
  /\ LET fracs == Fractions(freqNumber, now)
         best  == getStrongestStation(stations, fracs)
         g     == updateAudioE(best.fraction, qsbPhase)
     IN /\ stationGain' = g.station
        /\ noiseGain' = g.noise
        /\ eff' = Observe("frame", fracs, best, FALSE, FALSE, FALSE, FALSE,
                          g.writes)
  /\ utc' = now
  /\ steps' = steps + 1
  /\ UNCHANGED <<tuning, activated, freqRange>>
  /\ UNCHANGED <<variant, lastTime, boot, geo, stations, userLat, userLng, freqNumber,
                 audioCtx, noiseStarts, elSrc, elSources, qsbGain, chains,
                 lastSwitch, pending, qsbPhase, updateTimer, startEnabled,
                 stopEnabled>>
  /\ UNCHANGED timers

-----------------------------------------------------------------------------
(* Draft C: per-station chains with crossfade *)

\* cs without its i-th element
Without(cs, i) == SubSeq(cs, 1, i - 1) \o SubSeq(cs, i + 1, Len(cs))

\* applyAudioParams of C acting on the chain lastSwitch names at the time
\* of the call (last = 0: no chain, only the noise is written)
applyAudioParamsC(g, cs, last) ==
  /\ chains' = WithGain(cs, last, g.station)
  /\ noiseGain' = g.noise
  /\ qsbPhase' = g.phase
  /\ lastTime' = lastTime + g.elapsed

WritesC(g, last) ==
  IF last = 0 THEN {w \in g.writes : w.param = "noise"} ELSE g.writes

\* the async timer callback: findBestStation, initAudioCore,
\* `await switchToStationAudio(...)`, applyAudioParams.  When the switch
\* makes a new element the callback is suspended in `await el.play()` and
\* applyAudioParams runs later, from playSettled.  At most `limit`
\* callbacks are explored in one session.
tickCWithin(limit, now, rnd, dt) ==
  /\ variant = "C"
  /\ updateTimer
  /\ steps < limit
  /\ LET fracs  == Fractions(ReadTuned("C"), now)
         result == findBestStation(stations, fracs)
         made   == initAudio(audioCtx)
         none   == result.station = None \/ result.station.audio = <<>>
         same   == /\ ~none
                   /\ lastSwitch # 0
                   /\ chains[lastSwitch].src # <<>>
                   /\ Contains(chains[lastSwitch].src, result.station.audio)
         g      == applyAudioUpdates(result.fraction, rnd, dt, qsbPhase)
         faded  == WithGain(chains, lastSwitch, 0)
         fadeW  == IF lastSwitch # 0 THEN {Write("station", 0)} ELSE {}
     IN /\ audioCtx' = audioCtx + made
        /\ noiseStarts' = noiseStarts + made
        /\ IF none
           THEN /\ lastSwitch' = 0
                /\ applyAudioParamsC(g, faded, 0)
                /\ pending' = pending
                /\ eff' = Observe("tick", fracs, result, FALSE, FALSE, FALSE,
                                  FALSE, fadeW \cup WritesC(g, 0))
           ELSE IF same
           THEN /\ lastSwitch' = lastSwitch
                /\ applyAudioParamsC(g, chains, lastSwitch)
                /\ pending' = pending
                /\ eff' = Observe("tick", fracs, result, FALSE, FALSE, FALSE,
                                  FALSE, WritesC(g, lastSwitch))
           ELSE /\ chains' = Append(WithPauseDue(faded, lastSwitch),
                                    [src |-> Resolve(result.station.audio),
                                     gain |-> 0, paused |-> FALSE,
                                     pauseDue |-> FALSE])
                /\ lastSwitch' = Len(chains) + 1
                /\ pending' = Append(pending,
                                     [freq |-> ReadTuned("C"),
                                      fraction |-> result.fraction])
                /\ noiseGain' = (IF made > 0 THEN 600 ELSE noiseGain)
                /\ qsbPhase' = qsbPhase
                /\ lastTime' = lastTime
                /\ eff' = Observe("tick", fracs, result, TRUE, TRUE, TRUE,
                                  FALSE, fadeW \cup {Write("station", 0)})
  /\ utc' = now
  /\ steps' = steps + 1
  /\ UNCHANGED <<tuning, activated, freqRange>>
  /\ UNCHANGED <<variant, boot, geo, stations, userLat, userLng, freqNumber,
                 elSrc, elSources, stationGain, qsbGain, updateTimer,
                 startEnabled, stopEnabled>>
  /\ UNCHANGED timers

tickC(now, rnd, dt) == tickCWithin(MaxTicks, now, rnd, dt)

\* the play() promise of a new element settled (fulfilled, or rejected and
\* caught): the suspended callback i goes on to applyAudioParams with the
\* frequency and fraction it computed before the await
playSettled(i, rnd, dt) ==
  /\ variant = "C"
  /\ i \in 1..Len(pending)
  /\ LET g == applyAudioUpdates(pending[i].fraction, rnd, dt, qsbPhase)
     IN /\ applyAudioParamsC(g, chains, lastSwitch)
        /\ eff' = Plain("settled", WritesC(g, lastSwitch))
  /\ pending' = Without(pending, i)
  /\ UNCHANGED <<tuning, activated, freqRange>>
  /\ UNCHANGED <<variant, boot, geo, stations, userLat, userLng, freqNumber,
                 utc, audioCtx, noiseStarts, elSrc, elSources, stationGain,
                 qsbGain, lastSwitch, updateTimer, startEnabled, stopEnabled,
                 steps>>
  /\ UNCHANGED timers

\* the 300 ms timeout set when chain i was faded out for a new one:
\* `oldEl.pause()`
oldElementPaused(i) ==
  /\ variant = "C"
  /\ i \in 1..Len(chains)
  /\ chains[i].pauseDue
  /\ chains' = [chains EXCEPT ![i].paused = TRUE, ![i].pauseDue = FALSE]
  /\ eff' = Plain("paused", {})
  /\ UNCHANGED <<tuning, activated, freqRange, timers>>
  /\ UNCHANGED <<variant, lastTime, boot, geo, stations, userLat, userLng,
                 freqNumber, utc, audioCtx, noiseStarts, elSrc, elSources,
                 stationGain, noiseGain, qsbGain, lastSwitch, pending,
                 qsbPhase, updateTimer, startEnabled, stopEnabled, steps>>

-----------------------------------------------------------------------------
(* Draft F: slider-driven selection *)

\* selectStation(f) followed by updateAudio(best).  `audioElement.src !==
\* station.audio` compares the resolved URL with the reference as written.
\* Assigning src leaves the element paused, so the guarded play() is not
\* reached; a second createMediaElementSource on the same element throws
\* InvalidStateError, which ends the handler before the gain is set.
selectAndUpdateF(op, f) ==
  LET best    == selectStation(f)
      differs == best.station # None /\ elSrc # best.station.audio
      throws  == differs /\ elSources > 0
  IN /\ elSrc' = (IF differs THEN Resolve(best.station.audio) ELSE elSrc)
     /\ elSources' = (IF differs /\ ~throws THEN elSources + 1
                      ELSE elSources)
     /\ stationGain' = (IF best.station = None THEN 0
                        ELSE IF throws THEN stationGain ELSE 800)
     /\ eff' = [Observe(op, <<>>, best, differs, differs /\ ~throws, FALSE,
                        throws,
                        IF best.station = None THEN {Write("station", 0)}
                        ELSE IF throws THEN {}
                        ELSE {Write("station", 800)})
                EXCEPT !.fraction = 0, !.freq = f]

\* the slider `input` handler of F
sliderInputF(f) ==
  /\ variant = "F"
  /\ geo \in {"pending", "ok", "error"}
  /\ f # freqNumber
  /\ freqNumber' = f
  /\ selectAndUpdateF("input", f)
  /\ ~editing
  /\ activated' = TRUE
  /\ freqRange' = f
  /\ UNCHANGED tuning
  /\ UNCHANGED <<variant, lastTime, boot, geo, stations, userLat, userLng, utc,
                 audioCtx, noiseStarts, noiseGain, qsbGain, chains,
                 lastSwitch, pending, qsbPhase, updateTimer, startEnabled,
                 stopEnabled, steps>>
  /\ UNCHANGED timers

\* the Start click handler of F: resume, play, selectStation
startClickF ==
  /\ variant = "F"
  /\ startEnabled
  /\ selectAndUpdateF("start", freqNumber)
  /\ ~editing
  /\ activated' = TRUE
  /\ UNCHANGED <<tuning, freqRange>>
  /\ UNCHANGED <<variant, lastTime, boot, geo, stations, userLat, userLng, freqNumber,
                 utc, audioCtx, noiseStarts, noiseGain, qsbGain, chains,
                 lastSwitch, pending, qsbPhase, updateTimer, startEnabled,
                 stopEnabled, steps>>
  /\ UNCHANGED timers

-----------------------------------------------------------------------------
(* The session *)

Next ==
  \/ \E cat \in CataloguePool, supported \in BOOLEAN : LoadOk(cat, supported)
  \/ \E supported \in BOOLEAN : LoadFail(supported)
  \/ \E supported \in BOOLEAN : scriptF(supported)
  \/ \E p \in GeoPositions : GeoSuccess(p)
  \/ GeoError
  \/ \E p \in GeoPositions, now \in Later : startApp(p, now)
  \/ startRadioA
  \/ stopRadioA
  \/ startRadioC
  \/ stopRadioC
  \/ \E f \in TunedPool : sliderInput(f)
  \/ \E now \in Later, rnd \in RandomPool, dt \in DtPool : tickA(now, rnd, dt)
  \/ \E now \in Later, rnd \in RandomPool : startRadioB(now, rnd)
  \/ stopRadioB
  \/ \E now \in Later, rnd \in RandomPool : tickB(now, rnd)
  \/ \E f \in TunedPool, now \in Later, rnd \in RandomPool :
        sliderInputB(f, now, rnd)
  \/ \E now \in Later : startRadioD(now)
  \/ stopRadioD
  \/ \E now \in Later : tickD(now)
  \/ \E now \in Later : frameE(now)
  \/ \E now \in Later, rnd \in RandomPool, dt \in DtPool : tickC(now, rnd, dt)
  \/ \E i \in 1..MaxTicks, rnd \in RandomPool, dt \in DtPool :
        playSettled(i, rnd, dt)
  \/ \E i \in 1..MaxTicks : oldElementPaused(i)
  \/ \E f \in TunedPool : sliderInputF(f)
  \/ startClickF

Spec == Init /\ [][Next]_vars


-----------------------------------------------------------------------------
(* Tuning controls and scan of the two drafts of main.js (A, B) *)

\* the range of the tuning controls: min and max of freqRange
\* the controls have their listeners (A and C wire them after the load)
UIWired == variant \in {"B", "D"} \/ (variant \in {"A", "C"} /\ boot = "loaded")

\* the state the tuning handlers of A, C and D leave alone
session == <<variant, lastTime, boot, geo, stations, userLat, userLng, utc,
             audioCtx,
             noiseStarts, elSrc, elSources, stationGain, noiseGain, qsbGain,
             chains, lastSwitch, pending, qsbPhase, updateTimer, startEnabled,
             stopEnabled, steps>>

\* the user types v into the number field; no listener runs until the text
\* is committed (Enter, or the field losing focus)
numberEdit(v) ==
  /\ variant \in {"A", "B", "C", "D"}
  /\ UIWired
  /\ clicks < MaxClicks
  /\ v # freqNumber
  /\ freqNumber' = v
  /\ editing' = TRUE
  /\ activated' = TRUE
  /\ clicks' = clicks + 1
  /\ eff' = Plain("edit", {})
  /\ UNCHANGED <<session, freqRange, startVal, scanning, scanPos>>
  /\ UNCHANGED timers

\* the `change` listener of the number field (A, C, D)
numberChange ==
  /\ variant \in {"A", "C", "D"}
  /\ editing
  /\ LET v == clampTuned(FieldNumber(freqNumber))
     IN /\ freqNumber' = v
        /\ freqRange' = v
  /\ editing' = FALSE
  /\ eff' = Plain("change", {})
  /\ UNCHANGED <<session, activated, startVal, scanning, scanPos, clicks>>
  /\ UNCHANGED timers

\* the `change` listener of B: clamp, then findAndApply
numberChangeB(now, rnd) ==
  /\ variant = "B"
  /\ editing
  /\ LET v == clampTuned(FieldNumber(freqNumber))
     IN /\ freqNumber' = v
        /\ freqRange' = v
        /\ findAndApply("input", v, now, rnd, 0)
  /\ editing' = FALSE
  /\ UNCHANGED <<activated, startVal, scanning, scanPos, clicks>>
  /\ UNCHANGED <<variant, lastTime, boot, geo, stations, userLat, userLng, audioCtx,
                 noiseStarts, elSources, chains, lastSwitch, pending,
                 qsbPhase, updateTimer, startEnabled, stopEnabled, steps>>
  /\ UNCHANGED timers

\* the fine-tune buttons of A and C: one kHz up (clamped to max only) or
\* down (clamped to min only)
fineUp ==
  /\ variant \in {"A", "C"}
  /\ UIWired
  /\ ~editing
  /\ clicks < MaxClicks
  /\ LET v == Min(MaxFreq, FieldNumber(freqNumber) + 1)
     IN /\ freqNumber' = v
        /\ freqRange' = clampTuned(v)
  /\ activated' = TRUE
  /\ clicks' = clicks + 1
  /\ eff' = Plain("fine", {})
  /\ UNCHANGED <<session, editing, startVal, scanning, scanPos>>
  /\ UNCHANGED timers

fineDown ==
  /\ variant \in {"A", "C"}
  /\ UIWired
  /\ ~editing
  /\ clicks < MaxClicks
  /\ LET v == Max(MinFreq, FieldNumber(freqNumber) - 1)
     IN /\ freqNumber' = v
        /\ freqRange' = clampTuned(v)
  /\ activated' = TRUE
  /\ clicks' = clicks + 1
  /\ eff' = Plain("fine", {})
  /\ UNCHANGED <<session, editing, startVal, scanning, scanPos>>
  /\ UNCHANGED timers

\* knob drag of A and C: pointerdown stores the number field's value
knobDown ==
  /\ variant \in {"A", "C"}
  /\ UIWired
  /\ startVal = Null
  /\ startVal' = FieldNumber(freqNumber)
  /\ activated' = TRUE
  /\ eff' = Plain("knob", {})
  /\ UNCHANGED <<session, freqNumber, freqRange, editing, scanning, scanPos,
                 clicks>>
  /\ UNCHANGED timers

\* pointermove while dragging: startVal + delta, clamped on both sides
knobMove(delta) ==
  /\ startVal # Null
  /\ ~editing
  /\ clicks < MaxClicks
  /\ LET v == clampTuned(startVal + delta)
     IN /\ freqNumber' = v
        /\ freqRange' = v
  /\ clicks' = clicks + 1
  /\ eff' = Plain("knob", {})
  /\ UNCHANGED <<session, activated, editing, startVal, scanning, scanPos>>
  /\ UNCHANGED timers

\* pointerup ends the drag
knobUp ==
  /\ startVal # Null
  /\ ~editing
  /\ startVal' = Null
  /\ eff' = Plain("knob", {})
  /\ UNCHANGED <<session, activated, freqNumber, freqRange, editing, scanning,
                 scanPos, clicks>>
  /\ UNCHANGED timers

\* the Scan button (A, B, C): stopScan() when scanning, else startScan();
\* in B startScan reads the number field into `pos`
scanClick ==
  /\ \/ variant \in {"A", "C"} /\ boot = "loaded"
     \/ variant = "B" /\ (startEnabled \/ stopEnabled)
  /\ ~editing
  /\ scanning' = ~scanning
  /\ scanPos' = (IF ~scanning /\ variant = "B" THEN FieldNumber(freqNumber)
                 ELSE scanPos)
  /\ activated' = TRUE
  /\ eff' = Plain("scanclick", {})
  /\ UNCHANGED <<session, freqNumber, freqRange, editing, startVal, clicks>>
  /\ scanIntervals' = scanIntervals + (IF scanning THEN -1 ELSE 1)
  /\ UNCHANGED <<intervals, resuming>>

\* the scan timer callback of A and C: step from the number field's value,
\* write both controls, lock when the best fraction reaches 0.18; on a lock
\* A applies the audio parameters at once
scanStepWithin(limit, now, rnd, dt) ==
  /\ variant \in {"A", "C"}
  /\ scanning
  /\ steps < limit
  /\ LET v     == scanNext(FieldNumber(IF freqNumber # Null THEN freqNumber
                                       ELSE freqRange))
         fracs == Fractions(v, now)
         r     == findBestStation(stations, fracs)
         lock  == r.fraction >= ScanThreshold
         g     == applyAudioUpdates(r.fraction, rnd, dt, qsbPhase)
         apply == lock /\ variant = "A" /\ audioCtx > 0
     IN /\ freqNumber' = v
        /\ freqRange' = clampTuned(v)
        /\ scanning' = ~lock
        /\ stationGain' = (IF apply THEN g.station ELSE stationGain)
        /\ noiseGain' = (IF apply THEN g.noise ELSE noiseGain)
        /\ qsbPhase' = (IF apply THEN g.phase ELSE qsbPhase)
        /\ lastTime' = (IF apply THEN lastTime + dt ELSE lastTime)
        /\ eff' = [Plain("scan", IF lock /\ variant = "A"
                                 THEN WhenBuilt(audioCtx, g.writes) ELSE {})
                   EXCEPT !.fracs = fracs, !.fraction = r.fraction,
                          !.freq = v]
  /\ utc' = now
  /\ steps' = steps + 1
  /\ UNCHANGED <<variant, boot, geo, stations, userLat, userLng, audioCtx,
                 noiseStarts, elSrc, elSources, qsbGain, chains, lastSwitch,
                 pending, updateTimer, startEnabled, stopEnabled, activated,
                 editing, startVal, scanPos, clicks>>
  /\ scanIntervals' = scanIntervals - (IF scanning' THEN 0 ELSE 1)
  /\ UNCHANGED <<intervals, resuming>>

scanStep(now, rnd, dt) == scanStepWithin(MaxTicks, now, rnd, dt)

\* the scan timer callback of B: step `pos`, write both controls, update
\* the meter, apply the audio parameters, lock at 0.18
scanStepBWithin(limit, now, rnd) ==
  /\ variant = "B"
  /\ scanning
  /\ steps < limit
  /\ LET pos   == scanNext(scanPos)
         fracs == Fractions(pos, now)
         b     == findBestStation(stations, fracs)
         g     == applyAudioParamsB(b.fraction, rnd, qsbPhase)
         built == audioCtx > 0
     IN /\ scanPos' = pos
        /\ freqNumber' = pos
        /\ freqRange' = clampTuned(pos)
        /\ scanning' = ~(b.fraction >= ScanThreshold)
        /\ stationGain' = (IF built THEN g.station ELSE stationGain)
        /\ noiseGain' = (IF built THEN g.noise ELSE noiseGain)
        /\ qsbGain' = (IF built THEN g.qsb ELSE qsbGain)
        /\ eff' = [Plain("scan", WhenBuilt(audioCtx, g.writes))
                   EXCEPT !.fracs = fracs, !.fraction = b.fraction,
                          !.freq = pos, !.meter = meterWidth("B", b)]
  /\ utc' = now
  /\ steps' = steps + 1
  /\ UNCHANGED <<variant, lastTime, boot, geo, stations, userLat, userLng, audioCtx,
                 noiseStarts, elSrc, elSources, chains, lastSwitch, pending,
                 qsbPhase, updateTimer, startEnabled, stopEnabled, activated,
                 editing, startVal, clicks>>
  /\ scanIntervals' = scanIntervals - (IF scanning' THEN 0 ELSE 1)
  /\ UNCHANGED <<intervals, resuming>>

scanStepB(now, rnd) == scanStepBWithin(MaxTicks, now, rnd)

\* the Math.random() draw of the tuning sessions (the jitter of the QSB
\* depth plays no part in tuning)
TuneRandomPool == {0}

\* a page that has booted: catalogue loaded, position reported as
\* (51.5, -0.12), controls wired, nothing clicked yet
InitTune ==
  /\ variant \in {"A", "B"}
  /\ lastTime = 0
  /\ intervals = 0
  /\ scanIntervals = 0
  /\ resuming = 0
  /\ boot = "loaded"
  /\ geo = "ok"
  /\ stations \in TuneCatalogues
  /\ userLat = TuneListener[1]
  /\ userLng = TuneListener[2]
  /\ freqNumber = 6000
  /\ utc = TuneUtc
  /\ audioCtx = 0
  /\ noiseStarts = 0
  /\ elSrc = (IF variant \in {"A", "B", "D"} THEN PageAudio ELSE <<>>)
  /\ elSources = 0
  /\ stationGain = Null
  /\ noiseGain = Null
  /\ qsbGain = Null
  /\ chains = <<>>
  /\ lastSwitch = 0
  /\ pending = <<>>
  /\ qsbPhase = 0
  /\ updateTimer = FALSE
  /\ startEnabled = TRUE
  /\ stopEnabled = FALSE
  /\ steps = 0
  /\ activated = FALSE
  /\ freqRange = freqNumber
  /\ editing = FALSE
  /\ startVal = Null
  /\ scanning = FALSE
  /\ scanPos = 0
  /\ clicks = 0
  /\ eff = EffInit

NextTune ==
  \/ startRadioA
  \/ stopRadioA
  \/ \E rnd \in TuneRandomPool, dt \in DtPool : tickA(utc, rnd, dt)
  \/ \E rnd \in TuneRandomPool : startRadioB(utc, rnd)
  \/ stopRadioB
  \/ \E rnd \in TuneRandomPool : tickB(utc, rnd)
  \/ \E v \in EditPool : numberEdit(v)
  \/ numberChange
  \/ \E rnd \in TuneRandomPool : numberChangeB(utc, rnd)
  \/ fineUp
  \/ fineDown
  \/ knobDown
  \/ \E delta \in KnobPool : knobMove(delta)
  \/ knobUp
  \/ scanClick
  \/ \E rnd \in TuneRandomPool, dt \in DtPool : scanStep(utc, rnd, dt)
  \/ \E rnd \in TuneRandomPool : scanStepB(utc, rnd)

SpecTune == InitTune /\ [][NextTune]_vars

-----------------------------------------------------------------------------
(* computeStationSignalFraction with one input moved at a time *)

\* listener positions: (51.5, -0.12), the site of StTokyo, 1.1 km north of
\* it, and the fallback coordinates
ProbeListeners ==
  { <<515000, -1200>>, <<356800, 1396900>>, <<356900, 1396900>>,
    <<524895, -18980>>, <<515074, -1278>> }

\* catalogue records the fraction is computed for
ProbeStations == {StNear, StTokyo, StZero, StHuge}

\* |station.frequency_khz - tunedFreqKHz| and the great-circle distance of
\* the present setup
Mismatch == Abs(stations[1].frequency_khz - freqNumber)

DistanceKm ==
  haversineKm(userLat, userLng, stations[1].lat, stations[1].lng)

IsNight == isStationNight(variant, stations[1], utc)

\* the fraction of the setup, beside the setup and fraction it replaced
Probed(op, fraction) ==
  [op |-> op, fraction |-> fraction,
   was |-> [fraction |-> eff.fraction, mismatch |-> Mismatch,
            distance |-> DistanceKm, night |-> IsNight,
            tuned |-> freqNumber]]

InitProbe ==
  /\ variant \in Variants \ {"F"}
  /\ lastTime = 0
  /\ intervals = 0
  /\ scanIntervals = 0
  /\ resuming = 0
  /\ boot = "loaded"
  /\ geo = "ok"
  /\ \E st \in ProbeStations : stations = <<st>>
  /\ \E p \in ProbeListeners : userLat = p[1] /\ userLng = p[2]
  /\ freqNumber \in TunedPool
  /\ utc \in UtcPool
  /\ audioCtx = 0
  /\ noiseStarts = 0
  /\ elSrc = <<>>
  /\ elSources = 0
  /\ stationGain = Null
  /\ noiseGain = Null
  /\ qsbGain = Null
  /\ chains = <<>>
  /\ lastSwitch = 0
  /\ pending = <<>>
  /\ qsbPhase = 0
  /\ updateTimer = FALSE
  /\ startEnabled = FALSE
  /\ stopEnabled = FALSE
  /\ steps = 0
  /\ activated = FALSE
  /\ freqRange = freqNumber
  /\ editing = FALSE
  /\ startVal = Null
  /\ scanning = FALSE
  /\ scanPos = 0
  /\ clicks = 0
  /\ eff = [op |-> "none",
            fraction |-> SignalFraction(variant, stations[1], freqNumber,
                                        userLat, userLng, utc),
            was |-> <<>>]

\* the state outside the inputs of computeStationSignalFraction
probeRest == <<variant, lastTime, boot, geo, audioCtx, noiseStarts, elSrc,
               elSources,
               stationGain, noiseGain, qsbGain, chains, lastSwitch, pending,
               qsbPhase, updateTimer, startEnabled, stopEnabled, steps,
               activated, tuning>>

\* the tuned frequency moves
moveTuned(f) ==
  /\ f # freqNumber
  /\ freqNumber' = f
  /\ freqRange' = f
  /\ eff' = Probed("tuned", SignalFraction(variant, stations[1], f, userLat,
                                           userLng, utc))
  /\ UNCHANGED <<probeRest, stations, userLat, userLng, utc>>
  /\ UNCHANGED timers

\* the station's frequency moves
moveStationFreq(f) ==
  /\ f # stations[1].frequency_khz
  /\ stations' = <<[stations[1] EXCEPT !.frequency_khz = f]>>
  /\ eff' = Probed("stationFreq",
                   SignalFraction(variant, stations'[1], freqNumber, userLat,
                                  userLng, utc))
  /\ UNCHANGED <<probeRest, freqNumber, freqRange, userLat, userLng, utc>>
  /\ UNCHANGED timers

\* the listener moves
moveListener(p) ==
  /\ p # <<userLat, userLng>>
  /\ userLat' = p[1]
  /\ userLng' = p[2]
  /\ eff' = Probed("listener",
                   SignalFraction(variant, stations[1], freqNumber, p[1],
                                  p[2], utc))
  /\ UNCHANGED <<probeRest, stations, freqNumber, freqRange, utc>>
  /\ UNCHANGED timers

\* the clock moves
moveClock(now) ==
  /\ now # utc
  /\ utc' = now
  /\ eff' = Probed("clock",
                   SignalFraction(variant, stations[1], freqNumber, userLat,
                                  userLng, now))
  /\ UNCHANGED <<probeRest, stations, freqNumber, freqRange, userLat,
                 userLng>>
  /\ UNCHANGED timers

NextProbe ==
  \/ \E f \in TunedPool : moveTuned(f)
  \/ \E f \in TunedPool : moveStationFreq(f)
  \/ \E p \in ProbeListeners : moveListener(p)
  \/ \E now \in UtcPool : moveClock(now)

SpecProbe == InitProbe /\ [][NextProbe]_vars

-----------------------------------------------------------------------------
(* isStationNight on its own: every draft, station longitude and clock *)

\* station longitudes: -180, -90, -0.1, 0, 90, 139.69, 180 degrees
LngPool == {-1800000, -900000, -1000, 0, 900000, 1396900, 1800000}

\* clock readings (UTC minutes): 00:00, 05:59, 06:00, 06:30, 07:00, 12:00,
\* 17:59, 18:00, 23:00, 23:59
ClockPool == {0, 359, 360, 390, 420, 720, 1079, 1080, 1380, 1439}

InitNight ==
  /\ variant \in Variants \ {"F"}
  /\ lastTime = 0
  /\ intervals = 0
  /\ scanIntervals = 0
  /\ resuming = 0
  /\ boot = "loaded"
  /\ geo = "ok"
  /\ \E l \in LngPool : stations = <<[StNear EXCEPT !.lng = l]>>
  /\ userLat = Null
  /\ userLng = Null
  /\ freqNumber = 6000
  /\ utc \in ClockPool
  /\ audioCtx = 0
  /\ noiseStarts = 0
  /\ elSrc = <<>>
  /\ elSources = 0
  /\ stationGain = Null
  /\ noiseGain = Null
  /\ qsbGain = Null
  /\ chains = <<>>
  /\ lastSwitch = 0
  /\ pending = <<>>
  /\ qsbPhase = 0
  /\ updateTimer = FALSE
  /\ startEnabled = FALSE
  /\ stopEnabled = FALSE
  /\ steps = 0
  /\ activated = FALSE
  /\ freqRange = freqNumber
  /\ editing = FALSE
  /\ startVal = Null
  /\ scanning = FALSE
  /\ scanPos = 0
  /\ clicks = 0
  /\ eff = [op |-> "none", night |-> FALSE]

\* one call of isStationNight(station) at the clock reading `now`
callIsStationNight(now) ==
  /\ utc' = now
  /\ eff' = [op |-> "night", night |-> isStationNight(variant, stations[1], now)]
  /\ UNCHANGED <<probeRest, stations, userLat, userLng, freqNumber, freqRange>>
  /\ UNCHANGED timers

NextNight == \E now \in ClockPool : callIsStationNight(now)

SpecNight == InitNight /\ [][NextNight]_vars

-----------------------------------------------------------------------------
(* Start, Stop and Scan clicks.  The Start click listener of D is async:  *)
(* it is suspended in `await audioCtx.resume()` with the Start button     *)
(* still enabled, and calls startRadio() when the promise has settled.    *)

\* Start click listeners of D that may be suspended at the same time
MaxResuming == 2

\* the listener up to its await: initAudioIfNeeded() (both gains 0)
startClickD ==
  /\ variant = "D"
  /\ startEnabled
  /\ ~editing
  /\ resuming < MaxResuming
  /\ LET made == initAudio(audioCtx)
     IN /\ audioCtx' = audioCtx + made
        /\ noiseStarts' = noiseStarts + made
        /\ elSources' = elSources + made
        /\ stationGain' = (IF made > 0 THEN 0 ELSE stationGain)
        /\ noiseGain' = (IF made > 0 THEN 0 ELSE noiseGain)
        /\ eff' = Plain("startclick",
                        IF made > 0
                        THEN {Write("station", 0), Write("noise", 0)}
                        ELSE {})
  /\ resuming' = resuming + 1
  /\ activated' = TRUE
  /\ UNCHANGED <<tuning, freqRange, intervals, scanIntervals>>
  /\ UNCHANGED <<variant, lastTime, boot, geo, stations, userLat, userLng,
                 freqNumber, utc, elSrc, qsbGain, chains, lastSwitch, pending,
                 qsbPhase, updateTimer, startEnabled, stopEnabled, steps>>

\* the listener after its await: startRadio(); startBtn.disabled = true
startResumedD(now) ==
  /\ variant = "D"
  /\ resuming > 0
  /\ resuming' = resuming - 1
  /\ chooseAndApply("start", now, 0)
  /\ startEnabled' = FALSE
  /\ stopEnabled' = TRUE
  /\ updateTimer' = TRUE
  /\ intervals' = replaceInterval(updateTimer, intervals)
  /\ UNCHANGED <<tuning, activated, freqRange, scanIntervals>>
  /\ UNCHANGED <<variant, lastTime, boot, geo, stations, userLat, userLng,
                 freqNumber, audioCtx, noiseStarts, elSrc, elSources, qsbGain,
                 chains, lastSwitch, pending, qsbPhase, steps>>

InitTimers == Init /\ variant \in {"A", "B", "C", "D"}

NextTimers ==
  \/ \E cat \in TuneCatalogues, supported \in BOOLEAN : LoadOk(cat, supported)
  \/ \E p \in GeoPositions : GeoSuccess(p)
  \/ GeoError
  \/ startRadioA
  \/ stopRadioA
  \/ \E rnd \in TuneRandomPool : startRadioB(utc, rnd)
  \/ stopRadioB
  \/ startRadioC
  \/ stopRadioC
  \/ startClickD
  \/ startResumedD(utc)
  \/ stopRadioD
  \/ scanClick
  \/ \E rnd \in TuneRandomPool, dt \in DtPool : scanStep(utc, rnd, dt)
  \/ \E rnd \in TuneRandomPool : scanStepB(utc, rnd)

SpecTimers == InitTimers /\ [][NextTimers]_vars

-----------------------------------------------------------------------------
(* A scan left to run: the Scan button is clicked and the 180 ms timer    *)
(* fires until the scan locks.  The listener is in Beijing, where the     *)
(* catalogues lock on part of the band only.                              *)

\* scan timer callbacks explored: two sweeps of the band
MaxScanSteps == 600

ScanListener == <<399042, 1164074>>
ScanStarts == {6000, 25000, 29900}

InitScan ==
  /\ variant \in {"A", "B", "C"}
  /\ lastTime = 0
  /\ intervals = 0
  /\ scanIntervals = 0
  /\ resuming = 0
  /\ boot = "loaded"
  /\ geo = "ok"
  /\ stations \in TuneCatalogues
  /\ userLat = ScanListener[1]
  /\ userLng = ScanListener[2]
  /\ freqNumber \in ScanStarts
  /\ utc = TuneUtc
  /\ audioCtx = 0
  /\ noiseStarts = 0
  /\ elSrc = (IF variant \in {"A", "B"} THEN PageAudio ELSE <<>>)
  /\ elSources = 0
  /\ stationGain = Null
  /\ noiseGain = Null
  /\ qsbGain = Null
  /\ chains = <<>>
  /\ lastSwitch = 0
  /\ pending = <<>>
  /\ qsbPhase = 0
  /\ updateTimer = FALSE
  /\ startEnabled = TRUE
  /\ stopEnabled = FALSE
  /\ steps = 0
  /\ activated = FALSE
  /\ freqRange = freqNumber
  /\ editing = FALSE
  /\ startVal = Null
  /\ scanning = FALSE
  /\ scanPos = 0
  /\ clicks = 0
  /\ eff = EffInit

\* the scan timer fires
scanTimerFires ==
  \/ \E rnd \in TuneRandomPool, dt \in DtPool :
        scanStepWithin(MaxScanSteps, utc, rnd, dt)
  \/ \E rnd \in TuneRandomPool : scanStepBWithin(MaxScanSteps, utc, rnd)

\* the Scan button is pressed while no scan runs, and left alone then
scanStartClick == ~scanning /\ scanClick

NextScan ==
  \/ scanStartClick
  \/ scanTimerFires

\* the steps of NextScan that advance `steps` are the scan timer callbacks
scanTimerDue == scanning /\ steps < MaxScanSteps /\ steps' = steps + 1

\* an interval timer that is not cleared goes on firing
SpecScan == InitScan /\ [][NextScan]_vars /\ WF_steps(scanTimerDue)

-----------------------------------------------------------------------------
(* A long session of draft C: enough timer callbacks for the selection to *)
(* change several times                                                   *)

MaxChainTicks == 3

InitChain == Init /\ variant = "C"

NextChain ==
  \/ \E cat \in ChainCatalogues : LoadOk(cat, TRUE)
  \/ \E p \in GeoPositions : GeoSuccess(p)
  \/ GeoError
  \/ startRadioC
  \/ stopRadioC
  \/ \E f \in TunedPool : sliderInput(f)
  \/ \E rnd \in RandomPool, dt \in DtPool :
        tickCWithin(MaxChainTicks, utc, rnd, dt)
  \/ \E i \in 1..MaxChainTicks, rnd \in RandomPool, dt \in DtPool :
        playSettled(i, rnd, dt)
  \/ \E i \in 1..MaxChainTicks : oldElementPaused(i)

SpecChain == InitChain /\ [][NextChain]_vars

-----------------------------------------------------------------------------
(* The propagation model and the selector on their own: every draft that   *)
(* has computeStationSignalFraction, every catalogue, position, tuned      *)
(* frequency and clock reading of the pools, one evaluation each           *)

\* the listener states in which draft v can run its selector: a reported
\* position, its fallback, and (A, B, C) no position yet
ListenersOf(v) ==
  {<<p.lat, p.lng>> : p \in GeoPositions}
  \cup (IF HasFallback(v) THEN {<<Fallback(v).lat, Fallback(v).lng>>} ELSE {})
  \cup (IF v \in {"A", "B", "C"} THEN {<<Null, Null>>} ELSE {})

InitFn ==
  /\ variant \in Variants \ {"F"}
  /\ lastTime = 0
  /\ intervals = 0
  /\ scanIntervals = 0
  /\ resuming = 0
  /\ boot = "loaded"
  /\ stations \in CataloguePool \cup {<<>>}
  /\ \E p \in ListenersOf(variant) :
        /\ userLat = p[1]
        /\ userLng = p[2]
        /\ geo = (IF p[1] = Null THEN "pending" ELSE "ok")
  /\ freqNumber \in TunedPool
  /\ utc \in UtcPool
  /\ audioCtx = 0
  /\ noiseStarts = 0
  /\ elSrc = (IF variant \in {"A", "B", "D"} THEN PageAudio ELSE <<>>)
  /\ elSources = 0
  /\ stationGain = Null
  /\ noiseGain = Null
  /\ qsbGain = Null
  /\ chains = <<>>
  /\ lastSwitch = 0
  /\ pending = <<>>
  /\ qsbPhase = 0
  /\ updateTimer = FALSE
  /\ startEnabled = FALSE
  /\ stopEnabled = FALSE
  /\ steps = 0
  /\ activated = FALSE
  /\ freqRange = freqNumber
  /\ editing = FALSE
  /\ startVal = Null
  /\ scanning = FALSE
  /\ scanPos = 0
  /\ clicks = 0
  /\ eff = EffInit

\* one call of the draft's selector on the loaded catalogue
selectBest ==
  /\ eff.op = "none"
  /\ LET fracs == Fractions(freqNumber, utc)
         best  == Select(variant, stations, fracs)
     IN eff' = Observe("select", fracs, best, FALSE, FALSE, FALSE,
                       best.threw, {})
  /\ UNCHANGED <<tuning, activated, freqRange>>
  /\ UNCHANGED <<variant, lastTime, boot, geo, stations, userLat, userLng, freqNumber,
                 utc, audioCtx, noiseStarts, elSrc, elSources, stationGain,
                 noiseGain, qsbGain, chains, lastSwitch, pending, qsbPhase,
                 updateTimer, startEnabled, stopEnabled, steps>>
  /\ UNCHANGED timers

NextFn == selectBest

SpecFn == InitFn /\ [][NextFn]_vars

-----------------------------------------------------------------------------
(* Properties *)

\* handlers that evaluate the stations
Evaluating == {"tick", "input", "start", "frame", "select"}

\* the asset the station chain is playing: the src of the element the
\* script currently drives (<<>> when there is none)
Playing ==
  IF variant = "C"
  THEN (IF lastSwitch = 0 THEN <<>> ELSE chains[lastSwitch].src)
  ELSE elSrc

\* C1: every signal fraction computeStationSignalFraction returns lies in
\* [0, 1], whatever the station, tuned frequency and listener state
\* (distance 0, position unknown, zero or arbitrarily large power).
FractionInUnitInterval ==
  \A i \in DOMAIN eff.fracs : eff.fracs[i] \in 0..FracScale

\* C2: while the listener position is unset, every fraction a handler
\* computes (tick, slider or number input, start) is exactly 0.
ZeroWhilePositionUnset ==
  (eff.op \in Evaluating /\ ~eff.posKnown)
    => \A i \in DOMAIN eff.fracs : eff.fracs[i] = 0

BestAttainsMaximum ==
  (eff.op = "select" /\ Len(stations) > 0)
    => \E i \in 1..Len(stations) :
          /\ eff.station = stations[i]
          /\ eff.fraction = eff.fracs[i]
          /\ \A j \in 1..Len(stations) :
                /\ eff.fracs[j] <= eff.fracs[i]
                /\ eff.fracs[j] = eff.fracs[i] => i <= j

\* the fractions that can win a `>` comparison: the numbers (not NaN)
Numeric(fracs) == {i \in DOMAIN fracs : fracs[i] # NaN}

\* C4 amended: for a non-empty station list the selector returns the
\* greatest of 0 and the numeric fractions; when that is above 0 the station
\* is the earliest in load order attaining it, when it is 0 there is no
\* station.
BestIsEarliestPositiveMaximum ==
  (eff.op = "select" /\ Len(stations) > 0)
    => LET num == Numeric(eff.fracs)
       IN /\ eff.fraction >= 0
          /\ \A j \in num : eff.fracs[j] <= eff.fraction
          /\ IF \E j \in num : eff.fracs[j] > 0
             THEN \E i \in num :
                     /\ eff.station = stations[i]
                     /\ eff.fraction = eff.fracs[i]
                     /\ \A j \in num : eff.fracs[j] = eff.fracs[i] => i <= j
             ELSE eff.station = None /\ eff.fraction = 0

\* C4 witness: two stations with the same positive fraction, the first one
\* returned
TieKeepsFirst ==
  /\ eff.op = "select"
  /\ stations = <<StNear, StTwin>>
  /\ eff.fracs[1] = eff.fracs[2]
  /\ eff.fracs[1] > 0
  /\ eff.station = StNear

\* C5: on an empty station list the selector returns station none and
\* fraction 0, and does not throw.
EmptyListGivesNone ==
  (eff.op = "select" /\ stations = <<>>)
    => /\ eff.station = None
       /\ eff.fraction = 0
       /\ ~eff.threw

\* C5 witness: the selector ran on the empty catalogue
EmptyListSelected ==
  /\ eff.op = "select"
  /\ stations = <<>>
  /\ eff.station = None

\* C6: every station chain other than the one of the currently selected
\* station has gain target 0.
OnlySelectedChainAudible ==
  variant = "C"
    => \A i \in 1..Len(chains) :
          chains[i].gain # 0
            => /\ eff.station # None
               /\ chains[i].src = Resolve(eff.station.audio)

\* C7: when two consecutive evaluations select the same audio asset
\* reference, the second one does not reassign the source, creates no
\* element or source node, and does not call play().
SwitchIdempotent ==
  (eff.op \in Evaluating /\ eff.ref # NoRef /\ eff.ref = eff.prevRef)
    => ~eff.srcAssigned /\ ~eff.created /\ ~eff.played

\* C8: after an evaluation that selected a station, the asset playing is
\* that station's asset (drafts with per-station audio: A, B, C).
SwitchOnDifferentAsset ==
  (/\ variant \in {"A", "B", "C"}
   /\ eff.op = "tick" \/ (variant = "B" /\ eff.op \in {"input", "start"})
   /\ eff.station # None)
    => Playing = Resolve(eff.station.audio)

\* C9: no gain is ever below 0: every value a handler writes to a gain,
\* and the station gain at the trough of the QSB oscillator.
GainNeverNegative ==
  /\ \A w \in eff.writes : w.value >= 0
  /\ LowestStationGain >= 0
  /\ noiseGain # Null => noiseGain >= 0

\* C10: once geolocation is unsupported or has failed, the listener
\* position is the draft's hardcoded fallback coordinate.
FallbackOnGeoFailure ==
  geo \in {"error", "unsupported"}
    => /\ userLat = Fallback(variant).lat
       /\ userLng = Fallback(variant).lng
\* C11: after a failed catalogue load the station set is empty and every
\* tick (animation frame in E) selects no station, sets the signal meter to
\* 0% and does not throw.
LoadFailedTickNeutral ==
  (boot = "loaded" /\ stations = <<>> /\ eff.op \in {"tick", "frame"})
    => /\ eff.station = None
       /\ eff.fraction = 0
       /\ eff.meter = 0
       /\ ~eff.threw

\* C11 witness: the second tick after a failed load, meter at 0%
LoadFailedSecondTick ==
  /\ boot = "loaded"
  /\ stations = <<>>
  /\ eff.op = "tick"
  /\ steps = 2
  /\ eff.station = None
  /\ eff.meter = 0

\* C12: while the station set is empty every tick leaves the station gain
\* target and the noise gain target at 0.
SilentWhileCatalogueEmpty ==
  (boot = "loaded" /\ stations = <<>> /\ eff.op \in {"tick", "frame"})
    => /\ stationGain # Null => stationGain = 0
       /\ \A i \in 1..Len(chains) : chains[i].gain = 0
       /\ noiseGain = 0

\* C16: the QSB phase accumulator is wrapped modulo 1: at every moment its
\* value lies in [0, 1).
PhaseWrappedModuloOne == qsbPhase \in 0..(Milli - 1)

ParameterWritesNeedGraph == eff.writes # {} => audioCtx > 0

\* C13 witness: a scan step locked on a station before the first Start and
\* skipped the parameter write
ScanLockBeforeStart ==
  /\ audioCtx = 0
  /\ eff.op = "scan"
  /\ eff.fraction >= ScanThreshold
  /\ eff.writes = {}

\* C14: every rejected play() (no user gesture yet) is swallowed: no
\* handler leaves an uncaught error or an unhandled promise rejection.
PlayRejectionsSwallowed == ~eff.unhandled

\* C15: the tuned frequency a scheduler tick or a scan step reads lies
\* within [min, max], after any sequence of number-field edits and commits,
\* fine-tune clicks, knob drags and scan steps.
TunedFrequencyWithinRange ==
  eff.op \in {"tick", "scan"} => eff.freq \in MinFreq..MaxFreq

\* C18 (as stated): with position, power and day/night state fixed, the
\* fraction does not rise when |stationFreq - tunedFreq| grows, whether the
\* station frequency or the tuned frequency was moved.
FractionFallsWithMismatch ==
  [][(eff'.op \in {"tuned", "stationFreq"} /\ Mismatch' >= Mismatch)
       => ~Greater(eff'.fraction, eff.fraction)]_vars

\* C18 (amended): the fraction does not rise when the mismatch grows by
\* moving the station frequency, or by moving the tuned frequency while the
\* station is in day (in draft E at any hour); it peaks at zero mismatch.
FractionFallsWithStationMismatch ==
  [][(/\ Mismatch' >= Mismatch
      /\ \/ eff'.op = "stationFreq"
         \/ eff'.op = "tuned" /\ (~IsNight \/ variant = "E"))
       => ~Greater(eff'.fraction, eff.fraction)]_vars

\* C18 witness: at night the station frequency moved off the tuned
\* frequency and the fraction fell
StationMovedOffFrequency ==
  /\ eff.op = "stationFreq"
  /\ eff.was.night
  /\ eff.was.mismatch = 0
  /\ Mismatch > 0
  /\ eff.fraction < eff.was.fraction

\* C19 (as stated): with power, frequencies and day/night state fixed, the
\* fraction does not rise when the listener-to-station distance grows, and
\* is constant while the distance stays below 5 km.
FractionFallsWithDistance ==
  [][eff'.op = "listener"
       => /\ DistanceKm' >= DistanceKm
               => ~Greater(eff'.fraction, eff.fraction)
          /\ (DistanceKm <= 50000 /\ DistanceKm' <= 50000)
               => /\ ~Greater(eff'.fraction, eff.fraction)
                  /\ ~Greater(eff.fraction, eff'.fraction)]_vars

\* C19 (amended): the fraction does not rise when the distance grows, and
\* is constant while the distance stays below the draft's DIST_MIN_KM
\* (5 km; 1 km in draft D).
FractionFallsAboveFloor ==
  [][eff'.op = "listener"
       => /\ DistanceKm' >= DistanceKm
               => ~Greater(eff'.fraction, eff.fraction)
          /\ (/\ DistanceKm + DistEps(variant) <= DistMin(variant)
              /\ DistanceKm' + DistEps(variant) <= DistMin(variant))
               => /\ ~Greater(eff'.fraction, eff.fraction)
                  /\ ~Greater(eff.fraction, eff'.fraction)]_vars

\* C19 witness: the listener moved from the station's site to 1.1 km away
\* (below the 5 km floor) and the fraction stayed what it was
ListenerMovedBelowFloor ==
  /\ eff.op = "listener"
  /\ variant = "A"
  /\ eff.was.distance = 0
  /\ DistanceKm \in 1..DistMin(variant)
  /\ eff.fraction = eff.was.fraction
  /\ eff.fraction \in 1..FracScale

\* C20: for a station tuned exactly on frequency, with the tuned frequency
\* below 15000 kHz and the listener position known, the fraction computed
\* when the station is classified night is strictly greater than the
\* fraction of the same setup when it is classified day.
NightFractionExceedsDay ==
  [][(/\ eff'.op = "clock"
      /\ Mismatch = 0
      /\ freqNumber < 15000)
       => /\ (IsNight' /\ ~IsNight) => Greater(eff'.fraction, eff.fraction)
          /\ (IsNight /\ ~IsNight') => Greater(eff.fraction, eff'.fraction)
     ]_vars

\* C21: isStationNight returns true exactly when the local hour, UTC time
\* plus longitude / 15 wrapped into [0, 24), is < 6 or >= 18 (local hour 6
\* is day, local hour 18 is night).
NightIsLocalHourOutside6To18 ==
  eff.op = "night"
    => LET local == (utc * (HourT \div 60) + stations[1].lng) % DayT
       IN eff.night <=> (local < 6 * HourT \/ local >= 18 * HourT)

\* C22: the scheduler tick is the only code that runs station selection on
\* the tuned frequency and pushes audio parameters: the scan timer and the
\* handlers of the tuning controls neither run the selector nor write an
\* audio parameter.
SchedulerIsSoleSelector ==
  eff.op \in {"scan", "scanclick", "input", "change", "edit", "fine", "knob"}
    => eff.fracs = <<>> /\ eff.writes = {}

\* C23: after stopRadio has run and until the next startRadio (the update
\* timer is cleared, the engine exists), no handler writes a non-zero audio
\* parameter and the station and noise gain targets stay at 0.
SilentAfterStop ==
  (variant \in {"A", "B", "C", "D"} /\ audioCtx > 0 /\ ~updateTimer)
    => /\ \A w \in eff.writes : w.value = 0
       /\ stationGain \in {Null, 0}
       /\ noiseGain \in {Null, 0}
       /\ \A i \in 1..Len(chains) : chains[i].gain = 0

\* C24: in the crossfade draft tick bodies never interleave: a timer
\* callback starts only when no earlier callback is suspended in its
\* await, and a callback that resumes after its await is never one that a
\* later callback has overtaken (so the parameters applied are those of
\* the most recently started tick).
TickBodiesNeverInterleave ==
  [][(variant = "C" /\ eff'.op = "tick") => pending = <<>>]_vars

\* C25: in the crossfade draft at most two station chains (source ->
\* filter -> gain) are connected to the master output at any time,
\* however often the selection changes.
ConnectedChainsAtMostTwo == Len(chains) <= 2

\* C26 (as stated): a timer callback of draft A changes no module state
\* other than the QSB phase and the source of the station audio element.
\* The gain targets it writes are its audio output; utc is the wall clock.
TickKeepsAllButPhaseAndAsset ==
  [][(variant = "A" /\ eff'.op = "tick")
       => UNCHANGED <<lastTime, boot, geo, stations, userLat, userLng,
                      freqNumber, freqRange, audioCtx, noiseStarts,
                      elSources, qsbGain, chains, lastSwitch, pending,
                      updateTimer, startEnabled, stopEnabled, activated,
                      tuning>>]_vars

\* C26 (amended): a timer callback of draft A changes the QSB phase, the
\* stored time of the last audio update and the source of the station
\* audio element, and nothing else of the module state: the station list,
\* the listener position, the tuned frequency, the audio graph, the timers
\* and the controls are the same after the callback as before it.
TickKeepsAllButPhaseClockAndAsset ==
  [][(variant = "A" /\ eff'.op = "tick")
       => UNCHANGED <<boot, geo, stations, userLat, userLng, freqNumber,
                      freqRange, audioCtx, noiseStarts, elSources, qsbGain,
                      chains, lastSwitch, pending, updateTimer, startEnabled,
                      stopEnabled, activated, tuning>>]_vars

\* a second callback of draft A has run, has assigned a new source to the
\* element and has advanced the phase
TickSwitchedAsset ==
  /\ variant = "A"
  /\ eff.op = "tick"
  /\ eff.srcAssigned
  /\ steps = 2
  /\ qsbPhase > 0
  /\ lastTime > 0

\* C27: after any sequence of Start, Stop and Scan clicks (a second Start
\* click arriving while the first listener awaits audioCtx.resume()
\* included) at most one update interval timer and at most one scan
\* interval timer are live, and a live timer is the one whose handle is
\* stored in updateTimer / scanTimer.
OneTimerEachAndStored ==
  variant \in {"A", "B", "C", "D"}
    => /\ intervals = (IF updateTimer THEN 1 ELSE 0)
       /\ scanIntervals = (IF scanning THEN 1 ELSE 0)

\* D: one Start click listener has resumed and started the timer while a
\* second one, clicked during the first one's await, is still suspended
SecondStartStillAwaiting ==
  /\ variant = "D"
  /\ eff.op = "start"
  /\ resuming = 1
  /\ updateTimer

\* C28: in the crossfade draft, once a tick has selected nothing to play
\* (no station, or a station without an audio reference) no station
\* element keeps playing: every element is paused, or its pause
\* is scheduled.
NoElementPlaysWhenNoneSelected ==
  (variant = "C" /\ eff.op = "tick" /\ lastSwitch = 0)
    => \A i \in 1..Len(chains) : chains[i].paused \/ chains[i].pauseDue

\* the frequencies a scan started now steps through: the run up to max
\* from the value it starts at, then the cycle from min
ScanStart == IF variant = "B" THEN scanPos ELSE FieldNumber(freqNumber)
ScanFrequencies ==
  {f \in MinFreq..MaxFreq :
     \/ (f > ScanStart /\ (f - ScanStart) % ScanStep = 0)
     \/ (f - MinFreq) % ScanStep = 0}
SomeFrequencyLocks ==
  \E f \in ScanFrequencies :
     findBestStation(stations, Fractions(f, utc)).fraction >= ScanThreshold

\* C29: every scan tick moves the tuned frequency up by the scan step,
\* from above max back to min; the scan stops itself exactly at a stepped
\* frequency whose best fraction is >= 0.18, never below it; and a scan
\* left alone with a fixed catalogue stops if some frequency it steps
\* through reaches the threshold.
ScanStepsUntilFirstLock ==
  /\ [][eff'.op = "scan"
          => /\ eff'.freq = (IF ScanStart + ScanStep > MaxFreq THEN MinFreq
                             ELSE ScanStart + ScanStep)
             /\ freqNumber' = eff'.freq
             /\ scanning' <=> (eff'.fraction < ScanThreshold)]_vars
  /\ (scanning /\ steps = 0 /\ SomeFrequencyLocks) ~> ~scanning

\* a scan has stepped past max, wrapped to min and locked there
ScanLockedAfterWrap ==
  /\ eff.op = "scan"
  /\ ~scanning
  /\ eff.freq = MinFreq
  /\ steps > 1
  /\ eff.fraction >= ScanThreshold

\* C30: the selector returns a station if and only if the fraction it
\* returns is strictly above 0; the station returned is one whose own
\* fraction is that number, so a station whose fraction is 0 or NaN is
\* never returned, and a list on which every fraction is 0 gives no
\* station.
StationIffPositiveFraction ==
  eff.op = "select"
    => /\ eff.station # None <=> (eff.fraction # NaN /\ eff.fraction > 0)
       /\ eff.station # None
            => \E i \in 1..Len(stations) :
                  /\ eff.station = stations[i]
                  /\ eff.fracs[i] = eff.fraction
       /\ (\A i \in 1..Len(stations) : eff.fracs[i] = 0)
            => eff.station = None

\* a list whose first record has a NaN fraction: the second is returned
NaNRecordPassedOver ==
  /\ eff.op = "select"
  /\ Len(stations) = 2
  /\ eff.fracs[1] = NaN
  /\ eff.fracs[2] > 0
  /\ eff.station = stations[2]

=============================================================================
